---------------------------- MODULE Spec2Model ----------------------------
(***************************************************************************)
(* Kidney Care: the offline-first local data layer.                        *)
(*                                                                         *)
(* The model covers the connection manager (lib/database), the schema it   *)
(* applies, and the record services built on it (vitals, food,             *)
(* medications and medication logs).                                       *)
(*                                                                         *)
(* Execution model.  The application is single-threaded and cooperative:   *)
(* an async function runs from one resumption to its next `await` without  *)
(* interruption.  One action of the model is one such turn, together with  *)
(* the execution of the storage statement the turn issues: the engine      *)
(* executes the statements of a connection in the order they were issued,  *)
(* so a statement takes effect before anything issued after it.  The       *)
(* outcome of the statement is kept in the caller's record and acted on in *)
(* the caller's next turn.  A call whose last statement has been issued    *)
(* has nothing left to do but return or throw, which is folded into the    *)
(* same action.                                                            *)
(*                                                                         *)
(* Any storage statement may be rejected by the engine (I/O error, disk    *)
(* full): every statement has a nondeterministic failing outcome next to   *)
(* the outcome its constraints decide.                                     *)
(*                                                                         *)
(* Values.  Every column value is an integer: NULL is -1, a number is      *)
(* itself, a text is a code >= 1 and the empty text is 0, so that 0 is in  *)
(* both cases the value JavaScript treats as false in `x || null`.         *)
(* Instants are readings of the clock; a day is DayOf of an instant.       *)
(*                                                                         *)
(* The database file outlives the process: what it holds when the process  *)
(* starts is an input.  It is either absent (first launch) or holds the    *)
(* schema of CREATE_TABLES with rows that satisfy its constraints.         *)
(***************************************************************************)
EXTENDS Integers, Sequences, FiniteSets, TLC

----------------------------------------------------------------------------
(* Bounds of the model *)

\* handles the process may open in one behaviour
MaxOpens == 2

\* calls of the record services in one behaviour
MaxCalls == 1

\* ids a service may generate in one table
MaxRows == 3

\* medication_logs rows of medication 1 in the stored file
MaxLogs == 1

\* readings of the clock per day
TicksPerDay == 2

\* executeTransaction() calls of one client
MaxTxns == 1

\* statements of one executeTransaction() call
MaxTxnLen == 2

\* the calls of the auth service a client makes
MaxAuthCalls == 1

\* the calls of the auth store
MaxStoreCalls == 3

\* the calls of the settings store a client makes
MaxSettingsCalls == 2

\* the times the process is started again
MaxBoots == 1

----------------------------------------------------------------------------
(* Values *)

\* SQL NULL / a JavaScript null or undefined bound as a parameter
NULL == -1

\* `db = null` in lib/database
NullHandle == 0

\* the two places that call initDatabase() at startup: initialize() of
\* RootLayout and the mount effect of HomeScreen
Callers == {"RootLayout", "HomeScreen"}

\* the user of the stored file, and an id that names no user
UserIds == {1}

UnknownUserIds == {9}

\* values a caller supplies for a field: 0 is the number 0 or the empty text
FieldValues == {0, 1}

\* all partial records over the fields F: what Partial<...> admits
Partial(F) == UNION {[S -> FieldValues] : S \in SUBSET F}

\* `data.f` of a partial record bound as a parameter: undefined binds as NULL
Param(data, f) == IF f \in DOMAIN data THEN data[f] ELSE NULL

\* `x || null`
OrNull(x) == IF x = 0 \/ x = NULL THEN NULL ELSE x

\* the day of an instant, as a text code: format(new Date(), 'yyyy-MM-dd')
DayOf(t) == 1 + (t \div TicksPerDay)

VARIABLES
    db,        \* lib/database: `let db`, NullHandle or the index of a handle in conn
    conn,      \* the handles openDatabaseAsync has produced: [open, fk]
    file,      \* kidney_care.db: whether the tables / the indexes exist in it
    ini,       \* per caller: position and result of its initDatabase() call
    cls,       \* position and result of the closeDatabase() call
    tbl,       \* the rows of kidney_care.db: table name -> (id -> row)
    scheduled, \* expo-notifications: the scheduled reminders
    now,       \* the clock: the last instant `new Date()` returned
    call,      \* the record-service call that is suspended at an await
    calls,     \* the record-service calls made so far
    last,      \* the record-service call that completed last, as its caller saw it
    journal,   \* the open transaction of the handle: the rows as of its BEGIN
    tx,        \* per client: position and result of its executeTransaction() call
    auth,      \* per client: position and result of its auth-service call
    secureStore,   \* expo-secure-store: key -> stored text, NULL if absent
    authStore,     \* store/authStore: the state of useAuthStore
    storeCall,     \* per client: position and result of its auth-store call
    prev,          \* the auth-store call that completed last; `boot`: the one
                   \* that had completed last when the process started
    asyncStorage,  \* AsyncStorage: the text under 'app_settings', or NULL
    settingsStore, \* store/settingsStore: the state of useSettingsStore
    settingsCall   \* per client: position and result of its settings call

connVars == <<db, conn, file, ini, cls>>

\* what the calls of executeTransaction() and of the auth service keep
callVars == <<journal, tx, auth>>

\* what the stores keep, in memory and in the key-value storage of the device
storeVars == <<secureStore, authStore, storeCall, prev, asyncStorage,
               settingsStore, settingsCall>>

dataVars == <<tbl, scheduled, now, call, calls, last, callVars, storeVars>>

vars == <<db, conn, file, ini, cls, tbl, scheduled, now, call, calls, last,
          journal, tx, auth, secureStore, authStore, storeCall, prev,
          asyncStorage, settingsStore, settingsCall>>

----------------------------------------------------------------------------
(* Schema: CREATE_TABLES *)

Tables == {"users", "vitals", "food_entries", "medications",
           "medication_logs", "sync_queue"}

\* the columns of each table besides its primary key `id`
Columns ==
    [users |-> {"email", "name", "role", "profile_picture", "date_of_birth",
                "gender", "created_at", "updated_at"},
     vitals |-> {"user_id", "date", "weight", "systolic", "diastolic",
                 "heart_rate", "oxygen_saturation", "fluid_intake",
                 "urine_output", "temperature", "notes", "created_at",
                 "updated_at", "synced"},
     food_entries |-> {"user_id", "date", "meal_type", "food_name",
                       "serving_size", "serving_unit", "calories", "protein",
                       "carbohydrates", "fat", "potassium", "phosphorus",
                       "sodium", "fluid", "photo_url", "notes", "created_at",
                       "updated_at", "synced"},
     medications |-> {"user_id", "name", "dosage", "unit", "frequency",
                      "custom_frequency", "times", "start_date", "end_date",
                      "purpose", "instructions", "reminder_enabled", "active",
                      "created_at", "updated_at", "synced"},
     medication_logs |-> {"medication_id", "user_id", "scheduled_time",
                          "taken_time", "status", "notes", "created_at",
                          "synced"},
     sync_queue |-> {"table_name", "record_id", "operation", "data",
                     "created_at", "attempts", "last_attempt", "error"}]

\* the NOT NULL columns
NotNull ==
    [users |-> {"email", "name", "role", "created_at", "updated_at"},
     vitals |-> {"user_id", "date", "created_at", "updated_at"},
     food_entries |-> {"user_id", "date", "meal_type", "food_name",
                       "created_at", "updated_at"},
     medications |-> {"user_id", "name", "dosage", "unit", "frequency",
                      "times", "start_date", "created_at", "updated_at"},
     medication_logs |-> {"medication_id", "user_id", "scheduled_time",
                          "status", "created_at"},
     sync_queue |-> {"table_name", "record_id", "operation", "data",
                     "created_at"}]

\* FOREIGN KEY (column) REFERENCES parent (id)
ForeignKeys ==
    [users |-> {},
     vitals |-> {<<"user_id", "users">>},
     food_entries |-> {<<"user_id", "users">>},
     medications |-> {<<"user_id", "users">>},
     medication_logs |-> {<<"medication_id", "medications">>,
                          <<"user_id", "users">>},
     sync_queue |-> {}]

\* the UNIQUE columns
Unique ==
    [t \in Tables |-> IF t = "users" THEN {"email"} ELSE {}]

\* DEFAULT of a column an INSERT does not name
Default(t, c) ==
    CASE c \in {"synced", "attempts"} -> 0
      [] c \in {"reminder_enabled", "active"} -> 1
      [] OTHER -> NULL

\* a full row of table t from the columns r names
Row(t, r) ==
    [c \in Columns[t] |-> IF c \in DOMAIN r THEN r[c] ELSE Default(t, c)]

----------------------------------------------------------------------------
(* The engine: what a statement does to the rows *)

\* a statement can run at all: the handle is open and the tables exist
Usable(h) == h # NullHandle /\ conn[h].open /\ file.tables

\* PRAGMA foreign_keys of the handle
Enforced(h) == conn[h].fk

\* every foreign key of row r of table t names an existing parent row
RefsOk(t, r, rows) ==
    \A fk \in ForeignKeys[t] : r[fk[1]] = NULL \/ r[fk[1]] \in DOMAIN rows[fk[2]]

\* no row of a child table refers to one of the rows `ids` of table t
Unreferenced(t, ids, rows) ==
    \A ct \in Tables : \A fk \in ForeignKeys[ct] :
        fk[2] = t => \A k \in DOMAIN rows[ct] : rows[ct][k][fk[1]] \notin ids

\* no row of table t other than id has the value of r in a UNIQUE column
\* (a NULL equals nothing)
UniqueOk(t, id, r, rows) ==
    \A c \in Unique[t] : \A k \in DOMAIN rows[t] \ {id} :
        r[c] = NULL \/ rows[t][k][c] # r[c]

\* the rows f without the keys in ids
Without(f, ids) == [k \in DOMAIN f \ ids |-> f[k]]

\* the rows f with row r under key id
With(f, id, r) == [k \in DOMAIN f \cup {id} |-> IF k = id THEN r ELSE f[k]]

\* an engine that checks neither the columns nor the constraints of an INSERT
InsertAcceptedUnchecked(h, t, id, r) ==
    Usable(h) /\ id \notin DOMAIN tbl[t]

\* INSERT INTO t (id, <DOMAIN r>) VALUES (...): whether the engine accepts it
InsertAccepted(h, t, id, r) ==
    /\ Usable(h)
    /\ DOMAIN r \subseteq Columns[t]
    /\ id \notin DOMAIN tbl[t]
    /\ \A c \in NotNull[t] : Row(t, r)[c] # NULL
    /\ UniqueOk(t, id, Row(t, r), tbl)
    /\ Enforced(h) => RefsOk(t, Row(t, r), tbl)

InsertResult(t, id, r) == [tbl EXCEPT ![t] = With(tbl[t], id, Row(t, r))]

\* the row after an UPDATE that binds `c = ?` where the code binds
\* `c = COALESCE(?, c)`
UpdatedWithoutCoalesce(row, set, coalesce) ==
    [c \in DOMAIN row |->
        IF c \in DOMAIN set THEN set[c]
        ELSE IF c \in DOMAIN coalesce THEN coalesce[c]
        ELSE row[c]]

\* UPDATE t SET <set>, <c = COALESCE(?, c) for coalesce> WHERE id = ?:
\* the row after the statement
Updated(row, set, coalesce) ==
    [c \in DOMAIN row |->
        IF c \in DOMAIN set THEN set[c]
        ELSE IF c \in DOMAIN coalesce /\ coalesce[c] # NULL THEN coalesce[c]
        ELSE row[c]]

UpdateAccepted(h, t, id, set, coalesce) ==
    /\ Usable(h)
    /\ (DOMAIN set \cup DOMAIN coalesce) \subseteq Columns[t]
    /\ id \in DOMAIN tbl[t] =>
          /\ \A c \in NotNull[t] : Updated(tbl[t][id], set, coalesce)[c] # NULL
          /\ UniqueOk(t, id, Updated(tbl[t][id], set, coalesce), tbl)
          /\ Enforced(h) => RefsOk(t, Updated(tbl[t][id], set, coalesce), tbl)

UpdateResult(t, id, set, coalesce) ==
    IF id \in DOMAIN tbl[t]
      THEN [tbl EXCEPT ![t][id] = Updated(tbl[t][id], set, coalesce)]
      ELSE tbl

\* DELETE FROM t WHERE id IN ids
DeleteAccepted(h, t, ids) ==
    /\ Usable(h)
    /\ Enforced(h) => Unreferenced(t, ids \cap DOMAIN tbl[t], tbl)

DeleteResult(t, ids) == [tbl EXCEPT ![t] = Without(tbl[t], ids)]

\* outcomes of a statement on handle h that the engine accepts iff `accepted`:
\* done, rejected by the engine for a reason outside the statement ("io"),
\* rejected because the handle is closed or the tables are missing
\* ("unusable"), or rejected by the schema or a constraint ("constraint")
StmtOutcomes(h, accepted) ==
    IF ~Usable(h) THEN {"unusable"}
    ELSE IF accepted THEN {"ok", "io"}
    ELSE {"constraint"}

\* the error a caller sees for a statement outcome
ErrOf(out) == IF out = "ok" THEN "none" ELSE out

----------------------------------------------------------------------------
(* Connection manager: lib/database *)

IdleInit == [pc |-> "idle", out |-> "ok", h |-> NullHandle,
             res |-> "none", ret |-> NullHandle]

\* outcomes of a statement issued on handle h: the engine may reject any
\* statement, and rejects every statement on a closed (or null) handle
ExecOutcomes(h) ==
    IF h # NullHandle /\ conn[h].open THEN {"ok", "err"} ELSE {"err"}

\* an initDatabase() without the `if (db) return db;` at its head
HandleNeverExists == FALSE

\* `if (db)` at the head of initDatabase
HandleExists == db # NullHandle

\* the initDatabase() call of caller p ends by throwing (catch: log, rethrow)
InitThrows(p) ==
    ini' = [ini EXCEPT ![p] = [IdleInit EXCEPT !.res = "threw"]]

\* initDatabase(): `if (db) return db;` else issue openDatabaseAsync(DB_NAME)
initDatabase_call(p) ==
    /\ ini[p].pc = "idle"
    /\ IF HandleExists
         THEN /\ ini' = [ini EXCEPT ![p] =
                            [IdleInit EXCEPT !.res = "returned", !.ret = db]]
              /\ cls' = [cls EXCEPT !.closedSince = FALSE]
              /\ UNCHANGED <<db, conn, file>>
         ELSE /\ Len(conn) < MaxOpens
              /\ \E out \in {"ok", "err"} :
                    /\ conn' = IF out = "ok"
                                 THEN Append(conn, [open |-> TRUE, fk |-> FALSE])
                                 ELSE conn
                    /\ ini' = [ini EXCEPT ![p] =
                                 [IdleInit EXCEPT !.pc = "open", !.out = out,
                                     !.h = IF out = "ok" THEN Len(conn) + 1
                                                          ELSE NullHandle]]
              /\ UNCHANGED <<db, file, cls>>
    /\ UNCHANGED dataVars

\* `db = await SQLite.openDatabaseAsync(...)` resumes; PRAGMA foreign_keys = ON
\* is issued on db
initDatabase_opened(p) ==
    /\ ini[p].pc = "open"
    /\ IF ini[p].out = "err"
         THEN InitThrows(p) /\ UNCHANGED <<db, conn, file, cls>>
         ELSE /\ db' = ini[p].h
              /\ \E out \in ExecOutcomes(ini[p].h) :
                    /\ conn' = IF out = "ok"
                                 THEN [conn EXCEPT ![ini[p].h].fk = TRUE]
                                 ELSE conn
                    /\ ini' = [ini EXCEPT ![p].pc = "pragma", ![p].out = out,
                                          ![p].h = NullHandle]
              /\ UNCHANGED <<file, cls>>
    /\ UNCHANGED dataVars

\* the PRAGMA resumes; `await db.execAsync(CREATE_TABLES)` is issued on db
initDatabase_pragma(p) ==
    /\ ini[p].pc = "pragma"
    /\ IF ini[p].out = "err"
         THEN InitThrows(p) /\ UNCHANGED <<db, conn, file, cls>>
         ELSE /\ \E out \in ExecOutcomes(db) :
                    /\ file' = IF out = "ok" THEN [file EXCEPT !.tables = TRUE]
                                             ELSE file
                    /\ ini' = [ini EXCEPT ![p].pc = "tables", ![p].out = out]
              /\ UNCHANGED <<db, conn, cls>>
    /\ UNCHANGED dataVars

\* CREATE_TABLES resumes; `await db.execAsync(CREATE_INDEXES)` is issued on db
initDatabase_tables(p) ==
    /\ ini[p].pc = "tables"
    /\ IF ini[p].out = "err"
         THEN InitThrows(p) /\ UNCHANGED <<db, conn, file, cls>>
         ELSE /\ \E out \in (IF file.tables THEN ExecOutcomes(db) ELSE {"err"}) :
                    /\ file' = IF out = "ok" THEN [file EXCEPT !.indexes = TRUE]
                                             ELSE file
                    /\ ini' = [ini EXCEPT ![p].pc = "indexes", ![p].out = out]
              /\ UNCHANGED <<db, conn, cls>>
    /\ UNCHANGED dataVars

\* CREATE_INDEXES resumes; `return db`
initDatabase_indexes(p) ==
    /\ ini[p].pc = "indexes"
    /\ IF ini[p].out = "err"
         THEN InitThrows(p) /\ UNCHANGED cls
         ELSE /\ ini' = [ini EXCEPT ![p] =
                            [IdleInit EXCEPT !.res = "returned", !.ret = db]]
              /\ cls' = [cls EXCEPT !.closedSince = FALSE]
    /\ UNCHANGED <<db, conn, file>>
    /\ UNCHANGED dataVars

\* getDatabase(): the handle, or NullHandle for the thrown
\* 'Database not initialized' error
getDatabase == db

\* isDatabaseInitialized()
isDatabaseInitialized == db # NullHandle

\* closeDatabase(): `if (db) { await db.closeAsync(); ...`
closeDatabase_call ==
    /\ cls.pc = "idle"
    /\ IF db = NullHandle
         THEN cls' = [cls EXCEPT !.res = "noop"] /\ UNCHANGED conn
         ELSE \E out \in ExecOutcomes(db) :
                /\ conn' = IF out = "ok" THEN [conn EXCEPT ![db].open = FALSE]
                                         ELSE conn
                /\ cls' = [cls EXCEPT !.pc = "closing", !.out = out,
                                      !.res = "none"]
    /\ UNCHANGED <<db, file, ini>>
    /\ UNCHANGED dataVars

\* closeAsync resumes: `db = null;` or the rejection propagates
closeDatabase_closed ==
    /\ cls.pc = "closing"
    /\ IF cls.out = "err"
         THEN /\ cls' = [cls EXCEPT !.pc = "idle", !.out = "ok", !.res = "threw"]
              /\ UNCHANGED db
         ELSE /\ cls' = [cls EXCEPT !.pc = "idle", !.res = "closed",
                                    !.closedSince = TRUE]
              /\ db' = NullHandle
    /\ UNCHANGED <<conn, file, ini>>
    /\ UNCHANGED dataVars

----------------------------------------------------------------------------
(* Record services: what a call leaves behind *)

IdleCall == [op |-> "none", pc |-> "idle", h |-> NullHandle, id |-> NULL,
             data |-> << >>, out |-> "ok", pre |-> << >>, sel |-> {}]

NoCall == [op |-> "none", out |-> "none", err |-> "none", id |-> NULL,
           data |-> << >>, fk |-> FALSE, pre |-> << >>]

\* the completed call as its caller saw it: it returned (err = "none") or
\* threw; fk is PRAGMA foreign_keys of the handle it ran on
Done(op, id, data, err, h, pre) ==
    [op |-> op, out |-> IF err = "none" THEN "ok" ELSE "threw", err |-> err,
     id |-> id, data |-> data,
     fk |-> IF h = NullHandle THEN FALSE ELSE Enforced(h), pre |-> pre]

\* the caller whose initDatabase() calls follow one another
Caller == "RootLayout"

\* RootLayout renders the screens once its initialize() has settled, whether
\* initDatabase() returned or threw: `finally { setIsReady(true) }`
isReady == ini[Caller].pc = "idle" /\ ini[Caller].res # "none"

\* the stored row id of table t in a one-element set, or {} if there is none
Stored(t, id) == IF id \in DOMAIN tbl[t] THEN {tbl[t][id]} ELSE {}

\* a screen makes one more call of a record service: the screens exist once
\* RootLayout is ready, and make one call at a time
Called ==
    /\ isReady
    /\ call.pc = "idle"
    /\ calls < MaxCalls
    /\ calls' = calls + 1

\* `new Date()`: a reading of the clock, later than every earlier reading
Tick == now + 1

\* an id no row of table t has: `<prefix>_${Date.now()}_${Math.random()...}`
FreshId(t, max) ==
    CHOOSE i \in 1..max : i \notin DOMAIN tbl[t] /\
                          \A j \in 1..max : j \notin DOMAIN tbl[t] => i <= j

HasFreshId(t, max) == \E i \in 1..max : i \notin DOMAIN tbl[t]

----------------------------------------------------------------------------
(* Vitals service: services/vitals/vitalsService *)

\* the fields of Partial<VitalRecord> the callers of the model supply
VitalFields == {"weight", "notes"}

\* `record` of createVitalRecord as bound to the INSERT
VitalInsert(userId, data, t) ==
    [user_id |-> userId,
     date |-> IF OrNull(Param(data, "date")) # NULL THEN data["date"]
                                                   ELSE DayOf(t),
     weight |-> Param(data, "weight"),
     systolic |-> Param(data, "systolic"),
     diastolic |-> Param(data, "diastolic"),
     heart_rate |-> Param(data, "heartRate"),
     oxygen_saturation |-> Param(data, "oxygenSaturation"),
     fluid_intake |-> Param(data, "fluidIntake"),
     urine_output |-> Param(data, "urineOutput"),
     temperature |-> Param(data, "temperature"),
     notes |-> Param(data, "notes"),
     created_at |-> t,
     updated_at |-> t,
     synced |-> 0]

\* createVitalRecord(userId, data)
createVitalRecord(userId, data) ==
    /\ Called
    /\ HasFreshId("vitals", MaxRows)
    /\ now' = Tick
    /\ LET id == FreshId("vitals", MaxRows)
           r == VitalInsert(userId, data, Tick)
       IN IF getDatabase = NullHandle
            THEN /\ last' = Done("createVitalRecord", id, data, "nohandle",
                                 NullHandle, [userId |-> userId])
                 /\ UNCHANGED tbl
            ELSE \E out \in StmtOutcomes(db, InsertAccepted(db, "vitals", id, r)) :
                   /\ tbl' = IF out = "ok" THEN InsertResult("vitals", id, r)
                                           ELSE tbl
                   /\ last' = Done("createVitalRecord", id, data, ErrOf(out),
                                   db, [userId |-> userId])
    /\ UNCHANGED <<scheduled, call>>
    /\ UNCHANGED connVars
    /\ UNCHANGED storeVars
    /\ UNCHANGED callVars

\* the SELECT list of getVitalRecord: column `as` field, synced as a boolean
VitalRecord(id, row) ==
    [id |-> id, userId |-> row["user_id"], date |-> row["date"],
     weight |-> row["weight"], systolic |-> row["systolic"],
     diastolic |-> row["diastolic"], heartRate |-> row["heart_rate"],
     oxygenSaturation |-> row["oxygen_saturation"],
     fluidIntake |-> row["fluid_intake"], urineOutput |-> row["urine_output"],
     temperature |-> row["temperature"], notes |-> row["notes"],
     createdAt |-> row["created_at"], updatedAt |-> row["updated_at"],
     synced |-> IF row["synced"] \in {0, NULL} THEN 0 ELSE 1]

\* getVitalRecord(id): the record in a one-element set, or {} for null
getVitalRecord(id) ==
    IF id \in DOMAIN tbl["vitals"]
      THEN {VitalRecord(id, tbl["vitals"][id])}
      ELSE {}

\* the COALESCE(?, column) parameters of updateVitalRecord
VitalCoalesce(data) ==
    [weight |-> Param(data, "weight"),
     systolic |-> Param(data, "systolic"),
     diastolic |-> Param(data, "diastolic"),
     heart_rate |-> Param(data, "heartRate"),
     oxygen_saturation |-> Param(data, "oxygenSaturation"),
     fluid_intake |-> Param(data, "fluidIntake"),
     urine_output |-> Param(data, "urineOutput"),
     temperature |-> Param(data, "temperature"),
     notes |-> Param(data, "notes")]

\* the plain assignments of updateVitalRecord
VitalSet(t) == [updated_at |-> t, synced |-> 0]

\* updateVitalRecord(id, data)
updateVitalRecord(id, data) ==
    /\ Called
    /\ now' = Tick
    /\ IF getDatabase = NullHandle
         THEN /\ last' = Done("updateVitalRecord", id, data, "nohandle",
                              NullHandle, Stored("vitals", id))
              /\ UNCHANGED tbl
         ELSE \E out \in StmtOutcomes(db,
                    UpdateAccepted(db, "vitals", id, VitalSet(Tick),
                                   VitalCoalesce(data))) :
                /\ tbl' = IF out = "ok"
                            THEN UpdateResult("vitals", id, VitalSet(Tick),
                                              VitalCoalesce(data))
                            ELSE tbl
                /\ last' = Done("updateVitalRecord", id, data, ErrOf(out),
                                db, Stored("vitals", id))
    /\ UNCHANGED <<scheduled, call>>
    /\ UNCHANGED connVars
    /\ UNCHANGED storeVars
    /\ UNCHANGED callVars

\* deleteVitalRecord(id)
deleteVitalRecord(id) ==
    /\ Called
    /\ IF getDatabase = NullHandle
         THEN /\ last' = Done("deleteVitalRecord", id, << >>, "nohandle",
                              NullHandle, [tbl |-> tbl])
              /\ UNCHANGED tbl
         ELSE \E out \in StmtOutcomes(db, DeleteAccepted(db, "vitals", {id})) :
                /\ tbl' = IF out = "ok" THEN DeleteResult("vitals", {id})
                                        ELSE tbl
                /\ last' = Done("deleteVitalRecord", id, << >>, ErrOf(out),
                                db, [tbl |-> tbl])
    /\ UNCHANGED <<scheduled, now, call>>
    /\ UNCHANGED connVars
    /\ UNCHANGED storeVars
    /\ UNCHANGED callVars

----------------------------------------------------------------------------
(* Food service: services/food/foodService *)

\* the fields of CreateFoodEntryData and the column each is written to
FoodColumn ==
    [name |-> "name", mealType |-> "meal_type", servingSize |-> "serving_size",
     calories |-> "calories", protein |-> "protein", carbs |-> "carbs",
     fat |-> "fat", sodium |-> "sodium", potassium |-> "potassium",
     phosphorus |-> "phosphorus", fluid |-> "fluid", notes |-> "notes"]

\* the fields written as given; every other field is written as `x || null`
FoodVerbatim == {"name", "mealType"}

\* the columns and parameters of the INSERT of createFoodEntry
FoodInsert(data, t) ==
    [user_id |-> Param(data, "userId"),
     date |-> IF "date" \in DOMAIN data THEN data["date"] ELSE t,
     name |-> Param(data, "name"),
     meal_type |-> Param(data, "mealType"),
     serving_size |-> OrNull(Param(data, "servingSize")),
     calories |-> OrNull(Param(data, "calories")),
     protein |-> OrNull(Param(data, "protein")),
     carbs |-> OrNull(Param(data, "carbs")),
     fat |-> OrNull(Param(data, "fat")),
     sodium |-> OrNull(Param(data, "sodium")),
     potassium |-> OrNull(Param(data, "potassium")),
     phosphorus |-> OrNull(Param(data, "phosphorus")),
     fluid |-> OrNull(Param(data, "fluid")),
     notes |-> OrNull(Param(data, "notes")),
     created_at |-> IF "date" \in DOMAIN data THEN data["date"] ELSE t,
     synced |-> 0]

\* getFoodEntry(id): `SELECT *`, the row in a one-element set, or {} for null
getFoodEntry(id) ==
    IF id \in DOMAIN tbl["food_entries"]
      THEN {tbl["food_entries"][id] @@ [id |-> id]}
      ELSE {}

\* createFoodEntry(data): getDatabase(), then the INSERT is issued
createFoodEntry_call(data) ==
    /\ Called
    /\ HasFreshId("food_entries", MaxRows)
    /\ now' = Tick
    /\ LET id == FreshId("food_entries", MaxRows)
           r == FoodInsert(data, Tick)
       IN IF getDatabase = NullHandle
            THEN /\ last' = Done("createFoodEntry", id, data, "nohandle",
                                 NullHandle, << >>)
                 /\ UNCHANGED <<tbl, call>>
            ELSE \E out \in StmtOutcomes(db,
                        InsertAccepted(db, "food_entries", id, r)) :
                   /\ tbl' = IF out = "ok"
                               THEN InsertResult("food_entries", id, r)
                               ELSE tbl
                   /\ call' = [IdleCall EXCEPT !.op = "createFoodEntry",
                                  !.pc = "inserted", !.h = db, !.id = id,
                                  !.data = data, !.out = out]
                   /\ UNCHANGED last
    /\ UNCHANGED scheduled
    /\ UNCHANGED connVars
    /\ UNCHANGED storeVars
    /\ UNCHANGED callVars

\* the INSERT resumes; the SELECT by id; `if (!entry) throw`; return entry
createFoodEntry_inserted ==
    /\ call.op = "createFoodEntry" /\ call.pc = "inserted"
    /\ IF call.out # "ok"
         THEN last' = Done("createFoodEntry", call.id, call.data,
                           ErrOf(call.out), call.h, << >>)
         ELSE \E out \in StmtOutcomes(call.h, Usable(call.h)) :
                last' = Done("createFoodEntry", call.id, call.data,
                             IF out = "ok" /\ getFoodEntry(call.id) = {}
                               THEN "failed" ELSE ErrOf(out),
                             call.h, << >>)
    /\ call' = IdleCall
    /\ UNCHANGED <<tbl, scheduled, now>>
    /\ UNCHANGED connVars
    /\ UNCHANGED storeVars
    /\ UNCHANGED callVars
    /\ UNCHANGED calls

\* `fields` / `values` of updateFoodEntry: the assignments of the UPDATE
FoodSet(updates) ==
    [c \in {FoodColumn[f] : f \in DOMAIN updates} \cup {"synced"} |->
        IF c = "synced" THEN 0
        ELSE LET f == CHOOSE g \in DOMAIN updates : FoodColumn[g] = c
             IN IF f \in FoodVerbatim THEN updates[f] ELSE OrNull(updates[f])]

\* updateFoodEntry(id, updates)
updateFoodEntry(id, updates) ==
    /\ Called
    /\ IF getDatabase = NullHandle
         THEN /\ last' = Done("updateFoodEntry", id, updates, "nohandle",
                              NullHandle, Stored("food_entries", id))
              /\ UNCHANGED tbl
         ELSE \E out \in StmtOutcomes(db,
                    UpdateAccepted(db, "food_entries", id, FoodSet(updates),
                                   << >>)) :
                /\ tbl' = IF out = "ok"
                            THEN UpdateResult("food_entries", id,
                                              FoodSet(updates), << >>)
                            ELSE tbl
                /\ last' = Done("updateFoodEntry", id, updates, ErrOf(out),
                                db, Stored("food_entries", id))
    /\ UNCHANGED <<scheduled, now, call>>
    /\ UNCHANGED connVars
    /\ UNCHANGED storeVars
    /\ UNCHANGED callVars

\* deleteFoodEntry(id)
deleteFoodEntry(id) ==
    /\ Called
    /\ IF getDatabase = NullHandle
         THEN /\ last' = Done("deleteFoodEntry", id, << >>, "nohandle",
                              NullHandle, [tbl |-> tbl])
              /\ UNCHANGED tbl
         ELSE \E out \in StmtOutcomes(db,
                    DeleteAccepted(db, "food_entries", {id})) :
                /\ tbl' = IF out = "ok" THEN DeleteResult("food_entries", {id})
                                        ELSE tbl
                /\ last' = Done("deleteFoodEntry", id, << >>, ErrOf(out),
                                db, [tbl |-> tbl])
    /\ UNCHANGED <<scheduled, now, call>>
    /\ UNCHANGED connVars
    /\ UNCHANGED storeVars
    /\ UNCHANGED callVars

----------------------------------------------------------------------------
(* Medication service: services/medication/medicationService *)

\* `x ? 1 : 0`
Flag(x) == IF x = 0 \/ x = NULL THEN 0 ELSE 1

\* the columns and parameters of the INSERT of createMedication
MedicationInsert(data, t) ==
    [user_id |-> Param(data, "userId"),
     name |-> Param(data, "name"),
     dosage |-> Param(data, "dosage"),
     frequency |-> Param(data, "frequency"),
     time_of_day |-> OrNull(Param(data, "timeOfDay")),
     start_date |-> IF "startDate" \in DOMAIN data THEN data["startDate"] ELSE t,
     end_date |-> Param(data, "endDate"),
     instructions |-> OrNull(Param(data, "instructions")),
     reminder_enabled |-> Flag(Param(data, "reminderEnabled")),
     created_at |-> t,
     synced |-> 0]

\* getMedication(id): `SELECT *`, the row in a one-element set, or {} for null
getMedication(id) ==
    IF id \in DOMAIN tbl["medications"]
      THEN {tbl["medications"][id] @@ [id |-> id]}
      ELSE {}

\* scheduleMedicationReminder(medication): the reminders it registers, one
\* per time of `medication.time_of_day`
scheduleMedicationReminder(m) ==
    IF Flag(m["reminder_enabled"]) = 0 \/ "time_of_day" \notin DOMAIN m
      THEN {}
      ELSE IF OrNull(m["time_of_day"]) = NULL
        THEN {}
        ELSE {[medicationId |-> m["id"], time |-> m["time_of_day"]]}

\* the reminders left after `if (medication.reminder_enabled) { if
\* (hasPermission) await scheduleMedicationReminder(medication) }`
Rescheduled(before, m, hasPermission) ==
    IF Flag(m["reminder_enabled"]) = 1 /\ hasPermission
      THEN before \cup scheduleMedicationReminder(m)
      ELSE before

\* createMedication(data): getDatabase(), then the INSERT is issued
createMedication_call(data) ==
    /\ Called
    /\ HasFreshId("medications", MaxRows)
    /\ now' = Tick
    /\ LET id == FreshId("medications", MaxRows)
           r == MedicationInsert(data, Tick)
       IN IF getDatabase = NullHandle
            THEN /\ last' = Done("createMedication", id, data, "nohandle",
                                 NullHandle, << >>)
                 /\ UNCHANGED <<tbl, call>>
            ELSE \E out \in StmtOutcomes(db,
                        InsertAccepted(db, "medications", id, r)) :
                   /\ tbl' = IF out = "ok"
                               THEN InsertResult("medications", id, r)
                               ELSE tbl
                   /\ call' = [IdleCall EXCEPT !.op = "createMedication",
                                  !.pc = "inserted", !.h = db, !.id = id,
                                  !.data = data, !.out = out]
                   /\ UNCHANGED last
    /\ UNCHANGED scheduled
    /\ UNCHANGED connVars
    /\ UNCHANGED storeVars
    /\ UNCHANGED callVars

\* the INSERT resumes; the SELECT by id; `if (!medication) throw`; the
\* reminders are scheduled; return medication
createMedication_inserted ==
    /\ call.op = "createMedication" /\ call.pc = "inserted"
    /\ IF call.out # "ok"
         THEN /\ last' = Done("createMedication", call.id, call.data,
                              ErrOf(call.out), call.h, << >>)
              /\ UNCHANGED scheduled
         ELSE \E out \in StmtOutcomes(call.h, Usable(call.h)) :
                IF out = "ok" /\ getMedication(call.id) # {}
                  THEN \E hasPermission \in BOOLEAN :
                        /\ scheduled' = Rescheduled(scheduled,
                              CHOOSE m \in getMedication(call.id) : TRUE,
                              hasPermission)
                        /\ last' = Done("createMedication", call.id,
                                        call.data, "none", call.h, << >>)
                  ELSE /\ last' = Done("createMedication", call.id, call.data,
                                       IF out = "ok" THEN "failed"
                                                     ELSE ErrOf(out),
                                       call.h, << >>)
                       /\ UNCHANGED scheduled
    /\ call' = IdleCall
    /\ UNCHANGED <<tbl, now>>
    /\ UNCHANGED connVars
    /\ UNCHANGED storeVars
    /\ UNCHANGED callVars
    /\ UNCHANGED calls

\* the fields of updateMedication and the column each is written to
MedicationColumn ==
    [name |-> "name", dosage |-> "dosage", frequency |-> "frequency",
     timeOfDay |-> "time_of_day", startDate |-> "start_date",
     endDate |-> "end_date", instructions |-> "instructions",
     reminderEnabled |-> "reminder_enabled"]

\* the parameter updateMedication binds for field f given as x
MedicationValue(f, x) ==
    CASE f \in {"name", "dosage", "frequency", "startDate", "endDate"} -> x
      [] f \in {"timeOfDay", "instructions"} -> OrNull(x)
      [] f = "reminderEnabled" -> Flag(x)

\* `fields` / `values` of updateMedication: the assignments of the UPDATE
MedicationSet(updates) ==
    [c \in {MedicationColumn[f] : f \in DOMAIN updates} \cup {"synced"} |->
        IF c = "synced" THEN 0
        ELSE LET f == CHOOSE g \in DOMAIN updates : MedicationColumn[g] = c
             IN MedicationValue(f, updates[f])]

\* updateMedication(id, updates): getDatabase(), then the UPDATE is issued
updateMedication_call(id, updates) ==
    /\ Called
    /\ IF getDatabase = NullHandle
         THEN /\ last' = Done("updateMedication", id, updates, "nohandle",
                              NullHandle, Stored("medications", id))
              /\ UNCHANGED <<tbl, call>>
         ELSE \E out \in StmtOutcomes(db,
                    UpdateAccepted(db, "medications", id,
                                   MedicationSet(updates), << >>)) :
                /\ tbl' = IF out = "ok"
                            THEN UpdateResult("medications", id,
                                              MedicationSet(updates), << >>)
                            ELSE tbl
                /\ call' = [IdleCall EXCEPT !.op = "updateMedication",
                               !.pc = "updated", !.h = db, !.id = id,
                               !.data = updates, !.out = out,
                               !.pre = Stored("medications", id)]
                /\ UNCHANGED last
    /\ UNCHANGED <<scheduled, now>>
    /\ UNCHANGED connVars
    /\ UNCHANGED storeVars
    /\ UNCHANGED callVars

\* the UPDATE resumes; getMedication(id) calls getDatabase() and issues its
\* SELECT
updateMedication_updated ==
    /\ call.op = "updateMedication" /\ call.pc = "updated"
    /\ IF call.out # "ok" \/ getDatabase = NullHandle
         THEN /\ last' = Done("updateMedication", call.id, call.data,
                              IF call.out # "ok" THEN ErrOf(call.out)
                                                 ELSE "nohandle",
                              call.h, call.pre)
              /\ call' = IdleCall
         ELSE /\ \E out \in StmtOutcomes(db, Usable(db)) :
                    call' = [call EXCEPT !.pc = "selected", !.out = out,
                                         !.sel = getMedication(call.id)]
              /\ UNCHANGED last
    /\ UNCHANGED <<tbl, scheduled, now>>
    /\ UNCHANGED connVars
    /\ UNCHANGED storeVars
    /\ UNCHANGED callVars
    /\ UNCHANGED calls

\* the SELECT resumes; `if (medication)`: every scheduled notification is
\* cancelled and the medication's reminders are scheduled again
updateMedication_selected ==
    /\ call.op = "updateMedication" /\ call.pc = "selected"
    /\ IF call.out # "ok" \/ call.sel = {}
         THEN /\ last' = Done("updateMedication", call.id, call.data,
                              ErrOf(call.out), call.h, call.pre)
              /\ UNCHANGED scheduled
         ELSE \E cancelled \in BOOLEAN, hasPermission \in BOOLEAN :
                /\ scheduled' =
                      IF cancelled
                        THEN Rescheduled({}, CHOOSE m \in call.sel : TRUE,
                                         hasPermission)
                        ELSE scheduled
                /\ last' = Done("updateMedication", call.id, call.data,
                                IF cancelled THEN "none" ELSE "notify",
                                call.h, call.pre)
    /\ call' = IdleCall
    /\ UNCHANGED <<tbl, now>>
    /\ UNCHANGED connVars
    /\ UNCHANGED storeVars
    /\ UNCHANGED callVars
    /\ UNCHANGED calls

\* the rows of `DELETE FROM medication_logs` without its WHERE clause
LogsOfAny(id) == DOMAIN tbl["medication_logs"]

\* the medication_logs rows of medication id
LogsOf(id) ==
    {k \in DOMAIN tbl["medication_logs"] :
        tbl["medication_logs"][k]["medication_id"] = id}

\* deleteMedication(id): getDatabase(), then every scheduled notification
\* is cancelled
deleteMedication_call(id) ==
    /\ Called
    /\ IF getDatabase = NullHandle
         THEN /\ last' = Done("deleteMedication", id, << >>, "nohandle",
                              NullHandle,
                              [med |-> id \in DOMAIN tbl["medications"],
                               logs |-> LogsOf(id), tbl |-> tbl])
              /\ UNCHANGED <<call, scheduled>>
         ELSE \E cancelled \in BOOLEAN :
                /\ scheduled' = IF cancelled THEN {} ELSE scheduled
                /\ call' = [IdleCall EXCEPT !.op = "deleteMedication",
                               !.pc = "cancelled", !.h = db, !.id = id,
                               !.out = IF cancelled THEN "ok" ELSE "notify",
                               !.pre = [med |-> id \in DOMAIN tbl["medications"],
                                        logs |-> LogsOf(id), tbl |-> tbl]]
                /\ UNCHANGED last
    /\ UNCHANGED <<tbl, now>>
    /\ UNCHANGED connVars
    /\ UNCHANGED storeVars
    /\ UNCHANGED callVars

\* the cancellation resumes; DELETE FROM medications WHERE id = ? is issued
deleteMedication_cancelled ==
    /\ call.op = "deleteMedication" /\ call.pc = "cancelled"
    /\ IF call.out # "ok"
         THEN /\ last' = Done("deleteMedication", call.id, << >>,
                              ErrOf(call.out), call.h, call.pre)
              /\ call' = IdleCall
              /\ UNCHANGED tbl
         ELSE /\ \E out \in StmtOutcomes(call.h,
                         DeleteAccepted(call.h, "medications", {call.id})) :
                    /\ tbl' = IF out = "ok"
                                THEN DeleteResult("medications", {call.id})
                                ELSE tbl
                    /\ call' = [call EXCEPT !.pc = "deleted", !.out = out]
              /\ UNCHANGED last
    /\ UNCHANGED <<scheduled, now>>
    /\ UNCHANGED connVars
    /\ UNCHANGED storeVars
    /\ UNCHANGED callVars
    /\ UNCHANGED calls

\* the first DELETE resumes; DELETE FROM medication_logs WHERE
\* medication_id = ? is issued
deleteMedication_deleted ==
    /\ call.op = "deleteMedication" /\ call.pc = "deleted"
    /\ IF call.out # "ok"
         THEN /\ last' = Done("deleteMedication", call.id, << >>,
                              ErrOf(call.out), call.h, call.pre)
              /\ UNCHANGED tbl
         ELSE \E out \in StmtOutcomes(call.h,
                    DeleteAccepted(call.h, "medication_logs",
                                   LogsOf(call.id))) :
                /\ tbl' = IF out = "ok"
                            THEN DeleteResult("medication_logs",
                                              LogsOf(call.id))
                            ELSE tbl
                /\ last' = Done("deleteMedication", call.id, << >>,
                                ErrOf(out), call.h, call.pre)
    /\ call' = IdleCall
    /\ UNCHANGED <<scheduled, now>>
    /\ UNCHANGED connVars
    /\ UNCHANGED storeVars
    /\ UNCHANGED callVars
    /\ UNCHANGED calls

\* the columns and parameters of the INSERT of logMedicationIntake
LogInsert(medicationId, userId, taken, notes, t) ==
    [medication_id |-> medicationId,
     user_id |-> userId,
     taken_at |-> t,
     taken |-> Flag(taken),
     notes |-> OrNull(notes),
     created_at |-> t,
     synced |-> 0]

\* logMedicationIntake(medicationId, userId, taken, notes): getDatabase(),
\* then the INSERT is issued
logMedicationIntake_call(medicationId, userId, taken, notes) ==
    /\ Called
    /\ HasFreshId("medication_logs", MaxRows)
    /\ now' = Tick
    /\ LET id == FreshId("medication_logs", MaxRows)
           r == LogInsert(medicationId, userId, taken, notes, Tick)
           data == [medicationId |-> medicationId, userId |-> userId,
                    taken |-> taken, notes |-> notes]
       IN IF getDatabase = NullHandle
            THEN /\ last' = Done("logMedicationIntake", id, data, "nohandle",
                                 NullHandle, << >>)
                 /\ UNCHANGED <<tbl, call>>
            ELSE \E out \in StmtOutcomes(db,
                        InsertAccepted(db, "medication_logs", id, r)) :
                   /\ tbl' = IF out = "ok"
                               THEN InsertResult("medication_logs", id, r)
                               ELSE tbl
                   /\ call' = [IdleCall EXCEPT !.op = "logMedicationIntake",
                                  !.pc = "inserted", !.h = db, !.id = id,
                                  !.data = data, !.out = out]
                   /\ UNCHANGED last
    /\ UNCHANGED scheduled
    /\ UNCHANGED connVars
    /\ UNCHANGED storeVars
    /\ UNCHANGED callVars

\* the INSERT resumes; the SELECT by id; `if (!log) throw`; return log
logMedicationIntake_inserted ==
    /\ call.op = "logMedicationIntake" /\ call.pc = "inserted"
    /\ IF call.out # "ok"
         THEN last' = Done("logMedicationIntake", call.id, call.data,
                           ErrOf(call.out), call.h, << >>)
         ELSE \E out \in StmtOutcomes(call.h, Usable(call.h)) :
                last' = Done("logMedicationIntake", call.id, call.data,
                             IF out = "ok" /\
                                call.id \notin DOMAIN tbl["medication_logs"]
                               THEN "failed" ELSE ErrOf(out),
                             call.h, << >>)
    /\ call' = IdleCall
    /\ UNCHANGED <<tbl, scheduled, now>>
    /\ UNCHANGED connVars
    /\ UNCHANGED storeVars
    /\ UNCHANGED callVars
    /\ UNCHANGED calls

----------------------------------------------------------------------------
(* clearDatabase: lib/database *)

\* `const tables = [...]`: the tables in the order clearDatabase() empties
\* them
ClearOrder == <<"users", "vitals", "food_entries", "medications",
                "medication_logs", "sync_queue">>

\* `DELETE FROM t;` on handle h
ClearAccepted(h, t) == DeleteAccepted(h, t, DOMAIN tbl[t])

\* clearDatabase(): getDatabase(), then the first DELETE of the loop
clearDatabase_call ==
    /\ Called
    /\ IF getDatabase = NullHandle
         THEN /\ last' = Done("clearDatabase", NULL, << >>, "nohandle",
                              NullHandle, [tbl |-> tbl])
              /\ UNCHANGED <<tbl, call>>
         ELSE \E out \in StmtOutcomes(db, ClearAccepted(db, ClearOrder[1])) :
                /\ tbl' = IF out = "ok"
                            THEN DeleteResult(ClearOrder[1],
                                              DOMAIN tbl[ClearOrder[1]])
                            ELSE tbl
                /\ call' = [IdleCall EXCEPT !.op = "clearDatabase",
                               !.pc = "deleting", !.h = db, !.id = 1,
                               !.out = out, !.pre = [tbl |-> tbl]]
                /\ UNCHANGED last
    /\ UNCHANGED <<scheduled, now>>
    /\ UNCHANGED connVars
    /\ UNCHANGED storeVars
    /\ UNCHANGED callVars

\* a DELETE of the loop resumes: a rejected one ends the call with its
\* error, the last one ends the call, any other is followed by the DELETE of
\* the next table
clearDatabase_resumed ==
    /\ call.op = "clearDatabase" /\ call.pc = "deleting"
    /\ IF call.out # "ok" \/ call.id = Len(ClearOrder)
         THEN /\ last' = Done("clearDatabase", NULL, << >>, ErrOf(call.out),
                              call.h, call.pre)
              /\ call' = IdleCall
              /\ UNCHANGED tbl
         ELSE LET t == ClearOrder[call.id + 1]
              IN \E out \in StmtOutcomes(call.h, ClearAccepted(call.h, t)) :
                    /\ tbl' = IF out = "ok"
                                THEN DeleteResult(t, DOMAIN tbl[t])
                                ELSE tbl
                    /\ call' = [call EXCEPT !.id = call.id + 1, !.out = out]
                    /\ UNCHANGED last
    /\ UNCHANGED <<scheduled, now>>
    /\ UNCHANGED connVars
    /\ UNCHANGED storeVars
    /\ UNCHANGED callVars
    /\ UNCHANGED calls

----------------------------------------------------------------------------
(* Queries of the record services *)

\* `limit: number = 30`
DefaultLimit == 30

\* the value of a parameter with a default: NULL stands for an omitted one
OrDefault(x, d) == IF x = NULL THEN d ELSE x

\* a SELECT on table t that names the columns cols can run at all
SelectAccepted(h, t, cols) == Usable(h) /\ cols \subseteq Columns[t] \cup {"id"}

\* WHERE user_id = ?
OwnedBy(t, userId) == {k \in DOMAIN tbl[t] : tbl[t][k]["user_id"] = userId}

\* ORDER BY date ASC, created_at ASC where the code orders DESC
OrdersBeforeAscending(t, a, b) ==
    \/ tbl[t][a]["date"] < tbl[t][b]["date"]
    \/ /\ tbl[t][a]["date"] = tbl[t][b]["date"]
       /\ tbl[t][a]["created_at"] <= tbl[t][b]["created_at"]

\* ORDER BY date DESC, created_at DESC: row a may come before row b
OrdersBefore(t, a, b) ==
    \/ tbl[t][a]["date"] > tbl[t][b]["date"]
    \/ /\ tbl[t][a]["date"] = tbl[t][b]["date"]
       /\ tbl[t][a]["created_at"] >= tbl[t][b]["created_at"]

\* the orders in which the engine may return the rows ids of table t: rows
\* that agree on both keys come in an order the engine chooses
Ordered(t, ids) ==
    {s \in [1..Cardinality(ids) -> ids] :
        /\ \A i, j \in DOMAIN s : i # j => s[i] # s[j]
        /\ \A i \in DOMAIN s : i + 1 \in DOMAIN s => OrdersBefore(t, s[i], s[i + 1])}

\* LIMIT ?: a negative limit is no limit
Limited(s, limit) ==
    IF limit < 0 \/ limit >= Len(s) THEN s ELSE SubSeq(s, 1, limit)

\* WHERE user_id = ? ORDER BY date DESC, created_at DESC LIMIT ?: the ids of
\* the rows the engine may return
ListOf(t, userId, limit) ==
    {Limited(s, limit) : s \in Ordered(t, OwnedBy(t, userId))}

\* a query that returned `ret` or threw, as its caller saw it
Answered(op, data, err, h, ret) ==
    [ret |-> ret] @@ Done(op, NULL, data, err, h, << >>)

\* the columns getVitalRecords selects, orders by and filters on
VitalColumns == Columns["vitals"] \cup {"id"}

\* getVitalRecords(userId, limit): executeQuery, then `synced: !!r.synced`
getVitalRecords(userId, limit) ==
    /\ Called
    /\ LET data == [userId |-> userId, limit |-> limit]
       IN IF getDatabase = NullHandle
            THEN last' = Answered("getVitalRecords", data, "nohandle",
                                  NullHandle, << >>)
            ELSE \E out \in StmtOutcomes(db,
                        SelectAccepted(db, "vitals", VitalColumns)) :
                   IF out = "ok"
                     THEN \E s \in ListOf("vitals", userId,
                                          OrDefault(limit, DefaultLimit)) :
                            last' = Answered("getVitalRecords", data, "none", db,
                                       [i \in DOMAIN s |->
                                           VitalRecord(s[i], tbl["vitals"][s[i]])])
                     ELSE last' = Answered("getVitalRecords", data, ErrOf(out),
                                           db, << >>)
    /\ UNCHANGED <<tbl, scheduled, now, call>>
    /\ UNCHANGED connVars
    /\ UNCHANGED storeVars
    /\ UNCHANGED callVars

\* getFoodEntries(userId, limit): `SELECT *`
getFoodEntries(userId, limit) ==
    /\ Called
    /\ LET data == [userId |-> userId, limit |-> limit]
       IN IF getDatabase = NullHandle
            THEN last' = Answered("getFoodEntries", data, "nohandle",
                                  NullHandle, << >>)
            ELSE \E out \in StmtOutcomes(db,
                        SelectAccepted(db, "food_entries",
                                       {"user_id", "date", "created_at"})) :
                   IF out = "ok"
                     THEN \E s \in ListOf("food_entries", userId,
                                          OrDefault(limit, DefaultLimit)) :
                            last' = Answered("getFoodEntries", data, "none", db,
                                       [i \in DOMAIN s |->
                                           tbl["food_entries"][s[i]]
                                             @@ [id |-> s[i]]])
                     ELSE last' = Answered("getFoodEntries", data, ErrOf(out),
                                           db, << >>)
    /\ UNCHANGED <<tbl, scheduled, now, call>>
    /\ UNCHANGED connVars
    /\ UNCHANGED storeVars
    /\ UNCHANGED callVars

\* `days: number = 7`
DefaultDays == 7

\* the sum of column c over the rows ids of table t, a NULL adding nothing:
\* SUM(c), which is NULL over no row at all
RECURSIVE SumOf(_, _, _)
SumOf(t, ids, c) ==
    IF ids = {} THEN 0
    ELSE LET k == CHOOSE i \in ids : TRUE
             v == tbl[t][k][c]
         IN (IF v = NULL THEN 0 ELSE v) + SumOf(t, ids \ {k}, c)

\* the columns the SELECT of getMedicationAdherence names
AdherenceColumns == {"user_id", "taken", "taken_at"}

\* the result of getMedicationAdherence over the logs of userId taken at or
\* after instant `start`
Adherence(userId, start) ==
    LET logs == {k \in OwnedBy("medication_logs", userId) :
                    tbl["medication_logs"][k]["taken_at"] >= start}
        totalDoses == Cardinality(logs)
        takenDoses == Cardinality({k \in logs :
                         tbl["medication_logs"][k]["taken"] = 1})
        missedDoses == Cardinality({k \in logs :
                          tbl["medication_logs"][k]["taken"] = 0})
    IN [totalDoses |-> totalDoses, takenDoses |-> takenDoses,
        missedDoses |-> missedDoses,
        adherenceRate |-> IF totalDoses > 0
                            THEN (takenDoses * 100) \div totalDoses
                            ELSE 0]

\* getMedicationAdherence(userId, days): getDatabase(), `startDate` is
\* `days` days before now, then the SELECT
getMedicationAdherence(userId, days) ==
    /\ Called
    /\ now' = Tick
    /\ LET data == [userId |-> userId, days |-> days]
           start == Tick - OrDefault(days, DefaultDays) * TicksPerDay
       IN IF getDatabase = NullHandle
            THEN last' = Answered("getMedicationAdherence", data, "nohandle",
                                  NullHandle, << >>)
            ELSE \E out \in StmtOutcomes(db,
                        SelectAccepted(db, "medication_logs",
                                       AdherenceColumns)) :
                   last' = Answered("getMedicationAdherence", data, ErrOf(out),
                              db,
                              IF out = "ok" THEN Adherence(userId, start)
                                            ELSE << >>)
    /\ UNCHANGED <<tbl, scheduled, call>>
    /\ UNCHANGED connVars
    /\ UNCHANGED storeVars
    /\ UNCHANGED callVars

\* the nutrients of the summary and the column the SELECT sums for each
SummaryColumn ==
    [totalCalories |-> "calories", totalProtein |-> "protein",
     totalCarbs |-> "carbs", totalFat |-> "fat", totalSodium |-> "sodium",
     totalPotassium |-> "potassium", totalPhosphorus |-> "phosphorus",
     totalFluid |-> "fluid"]

\* setHours(0, 0, 0, 0) and setHours(23, 59, 59, 999) of a date
StartOfDay(t) == (DayOf(t) - 1) * TicksPerDay

EndOfDay(t) == StartOfDay(t) + TicksPerDay - 1

\* the result of getDailyNutritionSummary over the entries of userId dated
\* within the day of `date`
NutritionSummary(userId, date) ==
    LET entries == {k \in OwnedBy("food_entries", userId) :
                       /\ tbl["food_entries"][k]["date"] >= StartOfDay(date)
                       /\ tbl["food_entries"][k]["date"] <= EndOfDay(date)}
    IN [f \in DOMAIN SummaryColumn |->
           SumOf("food_entries", entries, SummaryColumn[f])]
         @@ [entriesCount |-> Cardinality(entries)]

\* getDailyNutritionSummary(userId, date)
getDailyNutritionSummary(userId, date) ==
    /\ Called
    /\ LET data == [userId |-> userId, date |-> date]
       IN IF getDatabase = NullHandle
            THEN last' = Answered("getDailyNutritionSummary", data,
                                  "nohandle", NullHandle, << >>)
            ELSE \E out \in StmtOutcomes(db,
                        SelectAccepted(db, "food_entries",
                            {SummaryColumn[f] : f \in DOMAIN SummaryColumn}
                              \cup {"user_id", "date"})) :
                   last' = Answered("getDailyNutritionSummary", data,
                              ErrOf(out), db,
                              IF out = "ok" THEN NutritionSummary(userId, date)
                                            ELSE << >>)
    /\ UNCHANGED <<tbl, scheduled, now, call>>
    /\ UNCHANGED connVars
    /\ UNCHANGED storeVars
    /\ UNCHANGED callVars

----------------------------------------------------------------------------
(* Transactions: executeTransaction of lib/database *)

\* the callers of executeTransaction() and of the auth service
Clients == {"A", "B"}

\* one element of `queries` is a statement with its parameters:
\* [kind, t, id, r] with r the columns an INSERT names or an UPDATE assigns
Accepted(h, q) ==
    CASE q.kind = "insert" -> InsertAccepted(h, q.t, q.id, q.r)
      [] q.kind = "update" -> UpdateAccepted(h, q.t, q.id, q.r, << >>)
      [] q.kind = "delete" -> DeleteAccepted(h, q.t, {q.id})

\* the rows after the engine ran statement q
Effect(q) ==
    CASE q.kind = "insert" -> InsertResult(q.t, q.id, q.r)
      [] q.kind = "update" -> UpdateResult(q.t, q.id, q.r, << >>)
      [] q.kind = "delete" -> DeleteResult(q.t, {q.id})

NoJournal == [active |-> FALSE, owner |-> "none", rows |-> << >>]

IdleTx == [pc |-> "idle", qs |-> << >>, i |-> 0, out |-> "ok", err |-> "none",
           res |-> "none", pre |-> << >>, n |-> 0, undid |-> "none"]

\* BEGIN on handle h: the engine starts a transaction unless one is open
BeginOutcomes(h) ==
    IF h # NullHandle /\ conn[h].open /\ ~journal.active THEN {"ok"}
    ELSE {"err"}

\* COMMIT on handle h: needs an open transaction, and may be rejected
\* (disk full, busy), which leaves the transaction open
CommitOutcomes(h) ==
    IF h # NullHandle /\ conn[h].open /\ journal.active THEN {"ok", "io"}
    ELSE {"err"}

\* ROLLBACK on handle h: needs an open transaction
RollbackOutcomes(h) ==
    IF h # NullHandle /\ conn[h].open /\ journal.active THEN {"ok"}
    ELSE {"err"}

\* a withTransactionAsync that rethrows without issuing ROLLBACK
RethrowsWithoutRollback(c, e) ==
    /\ tx' = [tx EXCEPT ![c].pc = "idle", ![c].out = "ok", ![c].err = e,
                        ![c].res = "threw"]
    /\ UNCHANGED <<tbl, journal>>

\* withTransactionAsync: `catch (e) { await this.execAsync('ROLLBACK'); ...`:
\* ROLLBACK is issued on db; e is kept for the rethrow
IssueRollback(c, e) ==
    \E out \in RollbackOutcomes(db) :
        /\ tbl' = IF out = "ok" THEN journal.rows ELSE tbl
        /\ journal' = IF out = "ok" THEN NoJournal ELSE journal
        /\ tx' = [tx EXCEPT ![c].pc = "rollback", ![c].out = out, ![c].err = e,
                            ![c].undid =
                                IF out # "ok" THEN "none"
                                ELSE IF journal.owner = c THEN "own"
                                ELSE "other"]

\* executeTransaction(queries): getDatabase(), then withTransactionAsync
\* issues BEGIN
executeTransaction_call(c, queries) ==
    /\ isReady
    /\ tx[c].pc = "idle"
    /\ tx[c].n < MaxTxns
    /\ IF getDatabase = NullHandle
         THEN /\ tx' = [tx EXCEPT ![c] =
                          [IdleTx EXCEPT !.qs = queries, !.err = "nohandle",
                              !.res = "threw", !.pre = tbl, !.n = tx[c].n + 1]]
              /\ UNCHANGED journal
         ELSE \E out \in BeginOutcomes(db) :
                /\ journal' = IF out = "ok"
                                THEN [active |-> TRUE, owner |-> c, rows |-> tbl]
                                ELSE journal
                /\ tx' = [tx EXCEPT ![c] =
                            [IdleTx EXCEPT !.pc = "begin", !.qs = queries,
                                !.out = out, !.pre = tbl, !.n = tx[c].n + 1]]
    /\ UNCHANGED <<tbl, scheduled, now, call, calls, last, auth>>
    /\ UNCHANGED connVars
    /\ UNCHANGED storeVars

\* BEGIN or a statement resumes: on a rejection the catch issues ROLLBACK;
\* else the loop issues the next `database.runAsync(query, params)`, or, past
\* the last one, withTransactionAsync issues COMMIT
executeTransaction_next(c) ==
    /\ tx[c].pc \in {"begin", "run"}
    /\ IF tx[c].out # "ok"
         THEN IssueRollback(c, IF tx[c].pc = "begin" THEN "begin"
                                                     ELSE tx[c].out)
         ELSE IF tx[c].i < Len(tx[c].qs)
           THEN LET q == tx[c].qs[tx[c].i + 1]
                IN \E out \in StmtOutcomes(db, Accepted(db, q)) :
                     /\ tbl' = IF out = "ok" THEN Effect(q) ELSE tbl
                     /\ tx' = [tx EXCEPT ![c].pc = "run", ![c].out = out,
                                         ![c].i = tx[c].i + 1]
                     /\ UNCHANGED journal
           ELSE \E out \in CommitOutcomes(db) :
                     /\ journal' = IF out = "ok" THEN NoJournal ELSE journal
                     /\ tx' = [tx EXCEPT ![c].pc = "commit", ![c].out = out]
                     /\ UNCHANGED tbl
    /\ UNCHANGED <<scheduled, now, call, calls, last, auth>>
    /\ UNCHANGED connVars
    /\ UNCHANGED storeVars

\* COMMIT resumes: executeTransaction returns, or the catch issues ROLLBACK
executeTransaction_committed(c) ==
    /\ tx[c].pc = "commit"
    /\ IF tx[c].out = "ok"
         THEN /\ tx' = [tx EXCEPT ![c].pc = "idle", ![c].res = "returned"]
              /\ UNCHANGED <<tbl, journal>>
         ELSE IssueRollback(c, "commit")
    /\ UNCHANGED <<scheduled, now, call, calls, last, auth>>
    /\ UNCHANGED connVars
    /\ UNCHANGED storeVars

\* ROLLBACK resumes: `throw e`, or the rejection of ROLLBACK itself; the
\* catch of executeTransaction logs and rethrows
executeTransaction_rolledback(c) ==
    /\ tx[c].pc = "rollback"
    /\ tx' = [tx EXCEPT ![c].pc = "idle", ![c].out = "ok", ![c].res = "threw",
                        ![c].err = IF tx[c].out = "ok" THEN tx[c].err
                                                      ELSE "rollback"]
    /\ UNCHANGED <<tbl, journal>>
    /\ UNCHANGED <<scheduled, now, call, calls, last, auth>>
    /\ UNCHANGED connVars
    /\ UNCHANGED storeVars

----------------------------------------------------------------------------
(* Auth service: services/auth/authService *)

\* an AuthResponse: `user` is a one-element set, or {} for an absent user;
\* `token` is NULL when absent
AuthResponse(success, message, user, token) ==
    [success |-> success, message |-> message, user |-> user, token |-> token]

\* `{ success: false, message }`
Refused(message) == AuthResponse(FALSE, message, {}, NULL)

NoResponse == Refused("none")

IdleAuth == [op |-> "none", pc |-> "idle", out |-> "ok", data |-> << >>,
             id |-> NULL, hash |-> NULL, sel |-> {}, stmt |-> << >>,
             res |-> NoResponse, n |-> 0]

\* an email is a code: a code above 10 is the email of the code ten below it
\* written with capital letters, and a multiple of 10 is a text without `@`
toLowerCase(s) == IF s > 10 THEN s - 10 ELSE s

\* a name or a password is the code of its length, 20 more when blanks
\* surround it
trim(s) == IF s > 20 THEN s - 20 ELSE s

\* `s.length`; a missing text has none
length(s) == IF s = NULL THEN 0 ELSE IF s > 20 THEN s - 18 ELSE s

\* isValidEmail(email): /^[^\s@]+@[^\s@]+\.[^\s@]+$/
isValidEmail(email) == email >= 1 /\ email % 10 # 0

\* hashPassword(password): the SHA256 digest, a text that is no password
hashPassword(password) == 100 + ((password * 37) % 61)

\* generateToken(): 32 random bytes in hex
Tokens == {1, 2}

\* the columns the SELECT of signIn names
SignInColumns == {"id", "name", "email", "role", "password_hash"}

\* the columns of `SELECT id, name, email, role FROM users`
UserColumns == {"id", "name", "email", "role"}

\* the ids of the users with email `email`, other than `except`
UsersWithEmail(email, except) ==
    {k \in DOMAIN tbl["users"] \ {except} : tbl["users"][k]["email"] = email}

\* `user` of an AuthResponse from a selected row
AuthUser(id, row, isPremium) ==
    [id |-> id, name |-> row["name"], email |-> row["email"],
     role |-> row["role"], isPremium |-> isPremium]

\* a column of a selected row: `undefined` (NULL) if the row has none
Field(row, c) == IF c \in DOMAIN row THEN row[c] ELSE NULL

\* a client makes one more call of the auth service
AuthCalled(c) ==
    /\ isReady
    /\ auth[c].pc = "idle"
    /\ auth[c].n < MaxAuthCalls

\* the call of client c returns `res`
Returned(c, res) ==
    auth' = [auth EXCEPT ![c].pc = "idle", ![c].res = res]

\* the call of client c begins: it returns `res` at once
ReturnedAtOnce(c, op, data, res) ==
    auth' = [auth EXCEPT ![c] = [IdleAuth EXCEPT !.op = op, !.data = data,
                                                 !.res = res,
                                                 !.n = auth[c].n + 1]]

\* the call of client c begins: getDatabase() throws and its catch returns
\* `res`
Thrown(c, op, data, res) ==
    auth' = [auth EXCEPT ![c] = [IdleAuth EXCEPT !.op = op, !.data = data,
                                                 !.out = "nohandle",
                                                 !.res = res,
                                                 !.n = auth[c].n + 1]]

\* the call of client c begins and is suspended at `pc` on a statement
\* whose outcome is `out` and whose result is `sel`
Suspended(c, op, data, pc, out, sel, hash) ==
    auth' = [auth EXCEPT ![c] = [IdleAuth EXCEPT !.op = op, !.data = data,
                                                 !.pc = pc, !.out = out,
                                                 !.sel = sel, !.hash = hash,
                                                 !.n = auth[c].n + 1]]

\* the parameters of the INSERT of signUp that binds the password itself
UserInsertPlain(data, hash, t) ==
    [name |-> trim(data["name"]), email |-> toLowerCase(data["email"]),
     password_hash |-> data["password"],
     role |-> OrDefault(Param(data, "role"), 1),
     created_at |-> t, updated_at |-> t, synced |-> 0]

\* the parameters of the INSERT of signUp
UserInsert(data, hash, t) ==
    [name |-> trim(data["name"]), email |-> toLowerCase(data["email"]),
     password_hash |-> hash, role |-> OrDefault(Param(data, "role"), 1),
     created_at |-> t, updated_at |-> t, synced |-> 0]

\* signUp(data): validation, then `SELECT id FROM users WHERE email = ?`
signUp_call(c, data) ==
    /\ AuthCalled(c)
    /\ IF data["name"] = 0 \/ length(trim(data["name"])) < 2
         THEN ReturnedAtOnce(c, "signUp", data,
                  Refused("Name must be at least 2 characters long"))
       ELSE IF ~isValidEmail(data["email"])
         THEN ReturnedAtOnce(c, "signUp", data,
                  Refused("Please enter a valid email address"))
       ELSE IF length(data["password"]) < 6
         THEN ReturnedAtOnce(c, "signUp", data,
                  Refused("Password must be at least 6 characters long"))
       ELSE IF getDatabase = NullHandle
         THEN Thrown(c, "signUp", data,
                  Refused("An error occurred during sign up. Please try again."))
       ELSE \E out \in StmtOutcomes(db, SelectAccepted(db, "users",
                                                       {"id", "email"})) :
              Suspended(c, "signUp", data, "lookup", out,
                  IF out = "ok"
                    THEN UsersWithEmail(toLowerCase(data["email"]), NULL)
                    ELSE {},
                  NULL)
    /\ UNCHANGED <<tbl, scheduled, now, call, calls, last, journal, tx>>
    /\ UNCHANGED connVars
    /\ UNCHANGED storeVars

\* signUp resumes after an await; a rejected statement ends it in its catch.
\* After the lookup: `if (existingUser)`, hashPassword, generateToken, the
\* INSERT. After the INSERT: `SELECT id, name, email, role FROM users WHERE
\* id = ?`. After that SELECT: `if (!user)`, or the account and its token
signUp_resumed(c) ==
    /\ auth[c].op = "signUp"
    /\ auth[c].pc # "idle"
    /\ IF auth[c].out # "ok"
         THEN /\ Returned(c, Refused(
                     "An error occurred during sign up. Please try again."))
              /\ UNCHANGED <<tbl, now>>
       ELSE IF auth[c].pc = "lookup" /\ auth[c].sel # {}
         THEN /\ Returned(c, Refused(
                     "An account with this email already exists"))
              /\ UNCHANGED <<tbl, now>>
       ELSE IF auth[c].pc = "lookup"
         THEN /\ HasFreshId("users", MaxRows)
              /\ now' = Tick
              /\ LET id == FreshId("users", MaxRows)
                     hash == hashPassword(auth[c].data["password"])
                     r == UserInsert(auth[c].data, hash, Tick)
                 IN \E out \in StmtOutcomes(db,
                                   InsertAccepted(db, "users", id, r)) :
                      /\ tbl' = IF out = "ok"
                                  THEN InsertResult("users", id, r)
                                  ELSE tbl
                      /\ auth' = [auth EXCEPT ![c].pc = "inserted",
                                              ![c].out = out, ![c].id = id,
                                              ![c].hash = hash, ![c].stmt = r]
       ELSE IF auth[c].pc = "inserted"
         THEN /\ \E out \in StmtOutcomes(db, SelectAccepted(db, "users",
                                                            UserColumns)) :
                   auth' = [auth EXCEPT ![c].pc = "selected", ![c].out = out,
                               ![c].sel = IF out = "ok"
                                            THEN Stored("users", auth[c].id)
                                            ELSE {}]
              /\ UNCHANGED <<tbl, now>>
       ELSE IF auth[c].sel = {}
         THEN /\ Returned(c, Refused("Failed to create user account"))
              /\ UNCHANGED <<tbl, now>>
       ELSE /\ \E token \in Tokens : \E row \in auth[c].sel :
                 Returned(c, AuthResponse(TRUE, "Account created successfully",
                                 {AuthUser(auth[c].id, row, FALSE)}, token))
            /\ UNCHANGED <<tbl, now>>
    /\ UNCHANGED <<scheduled, call, calls, last, journal, tx>>
    /\ UNCHANGED connVars
    /\ UNCHANGED storeVars

\* a signIn that first looks the account up and says so if there is none
signIn_callTellingAbsence(c, credentials) ==
    /\ AuthCalled(c)
    /\ IF getDatabase # NullHandle /\ Usable(db)
            /\ UsersWithEmail(toLowerCase(credentials["email"]), NULL) = {}
         THEN ReturnedAtOnce(c, "signIn", credentials,
                  Refused("No account found for this email"))
         ELSE \E out \in StmtOutcomes(db, SelectAccepted(db, "users",
                                                         SignInColumns)) :
                Suspended(c, "signIn", credentials, "lookup", out, {},
                          hashPassword(credentials["password"]))
    /\ UNCHANGED <<tbl, scheduled, now, call, calls, last, journal, tx>>
    /\ UNCHANGED connVars
    /\ UNCHANGED storeVars

\* signIn(credentials): validation, hashPassword, then
\* `SELECT id, name, email, role, password_hash FROM users WHERE email = ?`
signIn_call(c, credentials) ==
    /\ AuthCalled(c)
    /\ IF ~isValidEmail(credentials["email"])
         THEN ReturnedAtOnce(c, "signIn", credentials,
                  Refused("Please enter a valid email address"))
       ELSE IF length(credentials["password"]) = 0
         THEN ReturnedAtOnce(c, "signIn", credentials,
                  Refused("Please enter your password"))
       ELSE IF getDatabase = NullHandle
         THEN Thrown(c, "signIn", credentials,
                  Refused("An error occurred during login. Please try again."))
       ELSE \E out \in StmtOutcomes(db, SelectAccepted(db, "users",
                                                       SignInColumns)) :
              Suspended(c, "signIn", credentials, "lookup", out,
                  IF out = "ok"
                    THEN {[id |-> k, row |-> tbl["users"][k]] :
                            k \in UsersWithEmail(
                                    toLowerCase(credentials["email"]), NULL)}
                    ELSE {},
                  hashPassword(credentials["password"]))
    /\ UNCHANGED <<tbl, scheduled, now, call, calls, last, journal, tx>>
    /\ UNCHANGED connVars
    /\ UNCHANGED storeVars

\* signIn resumes after an await; a rejected statement ends it in its catch.
\* After the lookup: `if (!user || user.password_hash !== passwordHash)`, then
\* the SELECT on subscriptions, a table outside this model: it finds an
\* active subscription or none, or is rejected. After that SELECT:
\* `isPremium`, generateToken
signIn_resumed(c) ==
    /\ auth[c].op = "signIn"
    /\ auth[c].pc # "idle"
    /\ IF auth[c].out # "ok"
         THEN Returned(c, Refused(
                  "An error occurred during login. Please try again."))
       ELSE IF auth[c].pc = "lookup"
               /\ \A u \in auth[c].sel :
                      Field(u.row, "password_hash") # auth[c].hash
         THEN Returned(c, Refused("Invalid email or password"))
       ELSE IF auth[c].pc = "lookup"
         THEN \E out \in StmtOutcomes(db, Usable(db)) :
                auth' = [auth EXCEPT ![c].pc = "subscribed", ![c].out = out]
       ELSE \E isPremium \in BOOLEAN, token \in Tokens :
            \E u \in auth[c].sel :
              Returned(c, AuthResponse(TRUE, "Login successful",
                              {AuthUser(u.id, u.row, isPremium)}, token))
    /\ UNCHANGED <<tbl, scheduled, now, call, calls, last, journal, tx>>
    /\ UNCHANGED connVars
    /\ UNCHANGED storeVars

\* getUserById(userId): the row in a one-element set, or {} for null: a
\* rejected SELECT is caught and answers null
getUserById(userId, out) ==
    IF out = "ok" THEN Stored("users", userId) ELSE {}

\* the assignments of the UPDATE of updateUserProfile
ProfileSet(updates, t) ==
    (IF Param(updates, "name") \in {0, NULL} THEN << >>
       ELSE [name |-> trim(updates["name"])]) @@
    (IF Param(updates, "email") \in {0, NULL} THEN << >>
       ELSE [email |-> toLowerCase(updates["email"])]) @@
    [updated_at |-> t, synced |-> 0]

\* the UPDATE of updateUserProfile is issued by client c
ProfileUpdate(c, op, userId, updates, n) ==
    /\ now' = Tick
    /\ LET set == ProfileSet(updates, Tick)
       IN \E out \in StmtOutcomes(db,
                         UpdateAccepted(db, "users", userId, set, << >>)) :
            /\ tbl' = IF out = "ok"
                        THEN UpdateResult("users", userId, set, << >>)
                        ELSE tbl
            /\ auth' = [auth EXCEPT ![c] =
                           [IdleAuth EXCEPT !.op = op, !.data = updates,
                                            !.id = userId, !.pc = "updated",
                                            !.out = out, !.stmt = set,
                                            !.n = n]]

\* updateUserProfile(userId, updates): getDatabase, validation, then the
\* lookup of the email among the other users or, without an email, the UPDATE
updateUserProfile_call(c, userId, updates) ==
    /\ AuthCalled(c)
    /\ IF getDatabase = NullHandle
         THEN /\ Thrown(c, "updateUserProfile", updates,
                     Refused("Failed to update profile"))
              /\ UNCHANGED <<tbl, now>>
       ELSE IF Param(updates, "email") \notin {0, NULL}
               /\ ~isValidEmail(updates["email"])
         THEN /\ ReturnedAtOnce(c, "updateUserProfile", updates,
                     Refused("Please enter a valid email address"))
              /\ UNCHANGED <<tbl, now>>
       ELSE IF Param(updates, "email") \notin {0, NULL}
         THEN /\ \E out \in StmtOutcomes(db, SelectAccepted(db, "users",
                                                            {"id", "email"})) :
                   auth' = [auth EXCEPT ![c] =
                       [IdleAuth EXCEPT
                           !.op = "updateUserProfile", !.data = updates,
                           !.id = userId, !.pc = "lookup", !.out = out,
                           !.sel = IF out = "ok"
                                     THEN UsersWithEmail(
                                            toLowerCase(updates["email"]),
                                            userId)
                                     ELSE {},
                           !.n = auth[c].n + 1]]
              /\ UNCHANGED <<tbl, now>>
       ELSE ProfileUpdate(c, "updateUserProfile", userId, updates,
                          auth[c].n + 1)
    /\ UNCHANGED <<scheduled, call, calls, last, journal, tx>>
    /\ UNCHANGED connVars
    /\ UNCHANGED storeVars

\* updateUserProfile resumes after an await; a rejected statement ends it in
\* its catch. After the lookup: `if (existingUser)`, then the UPDATE. After
\* the UPDATE: getUserById, then the response
updateUserProfile_resumed(c) ==
    /\ auth[c].op = "updateUserProfile"
    /\ auth[c].pc # "idle"
    /\ IF auth[c].out # "ok"
         THEN /\ Returned(c, Refused("Failed to update profile"))
              /\ UNCHANGED <<tbl, now>>
       ELSE IF auth[c].pc = "lookup" /\ auth[c].sel # {}
         THEN /\ Returned(c, Refused("This email is already in use"))
              /\ UNCHANGED <<tbl, now>>
       ELSE IF auth[c].pc = "lookup"
         THEN ProfileUpdate(c, "updateUserProfile", auth[c].id, auth[c].data,
                            auth[c].n)
       ELSE /\ \E out \in IF getDatabase = NullHandle THEN {"nohandle"}
                           ELSE StmtOutcomes(db, SelectAccepted(db, "users",
                                                                UserColumns)) :
                 Returned(c, AuthResponse(TRUE, "Profile updated successfully",
                     {AuthUser(auth[c].id, row, FALSE) :
                         row \in getUserById(auth[c].id, out)}, NULL))
            /\ UNCHANGED <<tbl, now>>
    /\ UNCHANGED <<scheduled, call, calls, last, journal, tx>>
    /\ UNCHANGED connVars
    /\ UNCHANGED storeVars

\* changePassword(userId, currentPassword, newPassword): the length check,
\* hashPassword, then `SELECT password_hash FROM users WHERE id = ?`
changePassword_call(c, userId, currentPassword, newPassword) ==
    /\ AuthCalled(c)
    /\ LET data == [currentPassword |-> currentPassword,
                    password |-> newPassword]
       IN IF length(newPassword) < 6
            THEN ReturnedAtOnce(c, "changePassword", data, Refused(
                     "New password must be at least 6 characters long"))
          ELSE IF getDatabase = NullHandle
            THEN Thrown(c, "changePassword", data,
                     Refused("Failed to change password"))
          ELSE \E out \in StmtOutcomes(db, SelectAccepted(db, "users",
                                               {"id", "password_hash"})) :
                 auth' = [auth EXCEPT ![c] =
                     [IdleAuth EXCEPT
                         !.op = "changePassword", !.data = data,
                         !.id = userId, !.pc = "lookup", !.out = out,
                         !.sel = IF out = "ok" THEN Stored("users", userId)
                                               ELSE {},
                         !.hash = hashPassword(currentPassword),
                         !.n = auth[c].n + 1]]
    /\ UNCHANGED <<tbl, scheduled, now, call, calls, last, journal, tx>>
    /\ UNCHANGED connVars
    /\ UNCHANGED storeVars

\* changePassword resumes after an await; a rejected statement ends it in
\* its catch. After the SELECT: `if (!user || user.password_hash !==
\* currentHash)`, hashPassword, then the UPDATE. After the UPDATE: success
changePassword_resumed(c) ==
    /\ auth[c].op = "changePassword"
    /\ auth[c].pc # "idle"
    /\ IF auth[c].out # "ok"
         THEN /\ Returned(c, Refused("Failed to change password"))
              /\ UNCHANGED <<tbl, now>>
       ELSE IF auth[c].pc = "lookup"
               /\ \A row \in auth[c].sel :
                      Field(row, "password_hash") # auth[c].hash
         THEN /\ Returned(c, Refused("Current password is incorrect"))
              /\ UNCHANGED <<tbl, now>>
       ELSE IF auth[c].pc = "lookup"
         THEN /\ now' = Tick
              /\ LET set == [password_hash |->
                                 hashPassword(auth[c].data["password"]),
                             updated_at |-> Tick, synced |-> 0]
                 IN \E out \in StmtOutcomes(db, UpdateAccepted(db, "users",
                                                 auth[c].id, set, << >>)) :
                      /\ tbl' = IF out = "ok"
                                  THEN UpdateResult("users", auth[c].id, set,
                                                    << >>)
                                  ELSE tbl
                      /\ auth' = [auth EXCEPT ![c].pc = "updated",
                                              ![c].out = out, ![c].stmt = set]
       ELSE /\ Returned(c, AuthResponse(TRUE, "Password changed successfully",
                                        {}, NULL))
            /\ UNCHANGED <<tbl, now>>
    /\ UNCHANGED <<scheduled, call, calls, last, journal, tx>>
    /\ UNCHANGED connVars
    /\ UNCHANGED storeVars

----------------------------------------------------------------------------
(* Auth store: store/authStore *)

\* the users and tokens the screens hand to the store: `response.user` and
\* `response.token` of the auth service, both truthy
StoreUsers ==
    {[id |-> k, name |-> 2, email |-> k, role |-> 1, isPremium |-> 0] :
        k \in {1, 2}}

\* JSON.stringify(v): a text
stringify(v) == [json |-> v]

\* the properties of v that JSON.stringify writes: those that are not
\* undefined
Defined(v) == [f \in {g \in DOMAIN v : v[g] # NULL} |-> v[f]]

\* JSON.parse(s)
parse(s) == s.json

\* `x` is truthy: neither null nor undefined nor '' nor false (0)
Truthy(x) == x \notin {NULL, 0}

\* the initial state of useAuthStore; `user` is a one-element set, or {} for
\* null
InitialAuth == [user |-> {}, token |-> NULL, isAuthenticated |-> FALSE,
                isPremium |-> FALSE, subscriptionExpiry |-> NULL]

\* a secure store without items: an item is a one-element set, {} if absent
NoSecrets == [auth_token |-> {}, user_data |-> {}, premium_status |-> {}]

IdleStoreCall == [op |-> "none", pc |-> "idle", out |-> "ok", user |-> {},
                  token |-> NULL, sel |-> {}, data |-> << >>, res |-> "none"]

\* a completed call of the store as `prev` keeps it
NoStoreCall == [op |-> "none", res |-> "none", user |-> {}, token |-> NULL]

\* what `prev` keeps when the process stopped while a call was suspended
Interrupted == [NoStoreCall EXCEPT !.op = "interrupted"]

InitialPrev == [last |-> NoStoreCall, boot |-> NoStoreCall, n |-> 0,
                sinceBoot |-> 0, boots |-> 0]

\* outcomes of an operation of SecureStore or AsyncStorage: done or rejected
ItemOutcomes == {"ok", "err"}

\* a client makes one more call of the auth store
StoreCalled(c) ==
    /\ storeCall[c].pc = "idle"
    /\ prev.n < MaxStoreCalls

\* the call op(user, token) completed with `res`
Completed(op, user, token, res) ==
    [prev EXCEPT !.last = [op |-> op, res |-> res, user |-> user,
                           token |-> token],
                 !.n = prev.n + 1, !.sinceBoot = prev.sinceBoot + 1]

\* the suspended call of client c ends with `res`
Finished(c, res) ==
    /\ storeCall' = [storeCall EXCEPT ![c] = IdleStoreCall]
    /\ prev' = [prev EXCEPT !.last = [op |-> storeCall[c].op, res |-> res,
                                      user |-> storeCall[c].user,
                                      token |-> storeCall[c].token],
                            !.sinceBoot = prev.sinceBoot + 1]

\* the call of client c begins and is suspended at `pc`
Begun(c, op, pc, out, user, token, sel, data) ==
    /\ storeCall' = [storeCall EXCEPT ![c] =
                        [op |-> op, pc |-> pc, out |-> out, user |-> user,
                         token |-> token, sel |-> sel, data |-> data,
                         res |-> "none"]]
    /\ prev' = [prev EXCEPT !.n = prev.n + 1]

\* the suspended call of client c moves on to `pc`
Moved(c, pc, out, sel) ==
    /\ storeCall' = [storeCall EXCEPT ![c].pc = pc, ![c].out = out,
                                      ![c].sel = sel]
    /\ UNCHANGED prev

\* SecureStore.setItemAsync(key, value) with outcome out
SetItem(key, value, out) ==
    IF out = "ok" THEN [secureStore EXCEPT ![key] = {value}] ELSE secureStore

\* a deleteItemAsync that leaves the item where it is
DeleteItemKeeps(key, out) == secureStore

\* SecureStore.deleteItemAsync(key) with outcome out
DeleteItem(key, out) ==
    IF out = "ok" THEN [secureStore EXCEPT ![key] = {}] ELSE secureStore

\* setUser(user)
setUser(c, user) ==
    /\ StoreCalled(c)
    /\ authStore' = [authStore EXCEPT !.user = user,
                                      !.isAuthenticated = (user # {})]
    /\ prev' = Completed("setUser", user, NULL, "returned")
    /\ UNCHANGED <<secureStore, storeCall, asyncStorage, settingsStore,
                   settingsCall>>
    /\ UNCHANGED <<connVars, tbl, scheduled, now, call, calls, last, callVars>>

\* setToken(token)
setToken(c, token) ==
    /\ StoreCalled(c)
    /\ authStore' = [authStore EXCEPT !.token = token]
    /\ prev' = Completed("setToken", {}, token, "returned")
    /\ UNCHANGED <<secureStore, storeCall, asyncStorage, settingsStore,
                   settingsCall>>
    /\ UNCHANGED <<connVars, tbl, scheduled, now, call, calls, last, callVars>>

\* setPremiumStatus(isPremium, expiryDate)
setPremiumStatus(c, isPremium, expiryDate) ==
    /\ StoreCalled(c)
    /\ authStore' = [authStore EXCEPT !.isPremium = isPremium,
                                      !.subscriptionExpiry = expiryDate]
    /\ prev' = Completed("setPremiumStatus", {}, NULL, "returned")
    /\ UNCHANGED <<secureStore, storeCall, asyncStorage, settingsStore,
                   settingsCall>>
    /\ UNCHANGED <<connVars, tbl, scheduled, now, call, calls, last, callVars>>

\* a signIn that updates the state before it stores the token and the user
authStore_signIn_callSetsFirst(c, user, token) ==
    /\ StoreCalled(c)
    /\ \E out \in ItemOutcomes :
         /\ secureStore' = SetItem("auth_token", token, out)
         /\ Begun(c, "signIn", "token", out, {user}, token, {}, << >>)
    /\ authStore' = [authStore EXCEPT !.user = {user}, !.token = token,
                                      !.isAuthenticated = TRUE]
    /\ UNCHANGED <<asyncStorage, settingsStore, settingsCall>>
    /\ UNCHANGED <<connVars, tbl, scheduled, now, call, calls, last, callVars>>

\* signIn(user, token): setItemAsync(AUTH_TOKEN_KEY, token) is issued
authStore_signIn_call(c, user, token) ==
    /\ StoreCalled(c)
    /\ \E out \in ItemOutcomes :
         /\ secureStore' = SetItem("auth_token", token, out)
         /\ Begun(c, "signIn", "token", out, {user}, token, {}, << >>)
    /\ UNCHANGED <<authStore, asyncStorage, settingsStore, settingsCall>>
    /\ UNCHANGED <<connVars, tbl, scheduled, now, call, calls, last, callVars>>

\* signIn resumes; a rejected operation is logged and rethrown. After the
\* token: setItemAsync(USER_DATA_KEY, JSON.stringify(user)). After the user:
\* the state is set and checkPremiumStatus() reads PREMIUM_STATUS_KEY
authStore_signIn_resumed(c) ==
    /\ storeCall[c].op = "signIn"
    /\ storeCall[c].pc \in {"token", "user"}
    /\ IF storeCall[c].out # "ok"
         THEN /\ Finished(c, "threw")
              /\ UNCHANGED <<secureStore, authStore>>
       ELSE IF storeCall[c].pc = "token"
         THEN /\ \E out \in ItemOutcomes :
                   /\ secureStore' = SetItem("user_data",
                           stringify(CHOOSE u \in storeCall[c].user : TRUE),
                           out)
                   /\ Moved(c, "user", out, {})
              /\ UNCHANGED authStore
       ELSE /\ authStore' = [authStore EXCEPT
                                !.user = storeCall[c].user,
                                !.token = storeCall[c].token,
                                !.isAuthenticated = TRUE]
            /\ \E out \in ItemOutcomes :
                 Moved(c, "premium", out,
                       IF out = "ok" THEN secureStore["premium_status"]
                                     ELSE {})
            /\ UNCHANGED secureStore
    /\ UNCHANGED <<asyncStorage, settingsStore, settingsCall>>
    /\ UNCHANGED <<connVars, tbl, scheduled, now, call, calls, last, callVars>>

\* signOut(): deleteItemAsync(AUTH_TOKEN_KEY) is issued
signOut_call(c) ==
    /\ StoreCalled(c)
    /\ \E out \in ItemOutcomes :
         /\ secureStore' = DeleteItem("auth_token", out)
         /\ Begun(c, "signOut", "token", out, {}, NULL, {}, << >>)
    /\ UNCHANGED <<authStore, asyncStorage, settingsStore, settingsCall>>
    /\ UNCHANGED <<connVars, tbl, scheduled, now, call, calls, last, callVars>>

\* signOut resumes; a rejected operation is logged and rethrown. After the
\* token: deleteItemAsync(USER_DATA_KEY), then
\* deleteItemAsync(PREMIUM_STATUS_KEY), then the state is cleared
signOut_resumed(c) ==
    /\ storeCall[c].op = "signOut"
    /\ storeCall[c].pc # "idle"
    /\ IF storeCall[c].out # "ok"
         THEN /\ Finished(c, "threw")
              /\ UNCHANGED <<secureStore, authStore>>
       ELSE IF storeCall[c].pc = "token"
         THEN /\ \E out \in ItemOutcomes :
                   /\ secureStore' = DeleteItem("user_data", out)
                   /\ Moved(c, "user", out, {})
              /\ UNCHANGED authStore
       ELSE IF storeCall[c].pc = "user"
         THEN /\ \E out \in ItemOutcomes :
                   /\ secureStore' = DeleteItem("premium_status", out)
                   /\ Moved(c, "premium", out, {})
              /\ UNCHANGED authStore
       ELSE /\ authStore' = InitialAuth
            /\ Finished(c, "returned")
            /\ UNCHANGED secureStore
    /\ UNCHANGED <<asyncStorage, settingsStore, settingsCall>>
    /\ UNCHANGED <<connVars, tbl, scheduled, now, call, calls, last, callVars>>

\* loadStoredAuth(): getItemAsync(AUTH_TOKEN_KEY) is issued
loadStoredAuth_call(c) ==
    /\ StoreCalled(c)
    /\ \E out \in ItemOutcomes :
         Begun(c, "loadStoredAuth", "token", out, {}, NULL,
               IF out = "ok" THEN secureStore["auth_token"] ELSE {}, << >>)
    /\ UNCHANGED <<secureStore, authStore, asyncStorage, settingsStore,
                   settingsCall>>
    /\ UNCHANGED <<connVars, tbl, scheduled, now, call, calls, last, callVars>>

\* loadStoredAuth resumes; a rejected read is logged and the call returns.
\* After the token: getItemAsync(USER_DATA_KEY). After the user:
\* `if (token && userData)`, the state is set and checkPremiumStatus() reads
\* PREMIUM_STATUS_KEY
loadStoredAuth_resumed(c) ==
    /\ storeCall[c].op = "loadStoredAuth"
    /\ storeCall[c].pc \in {"token", "user"}
    /\ IF storeCall[c].out # "ok"
         THEN /\ Finished(c, "caught")
              /\ UNCHANGED authStore
       ELSE IF storeCall[c].pc = "token"
         THEN /\ \E out \in ItemOutcomes :
                   /\ storeCall' = [storeCall EXCEPT
                         ![c].pc = "user", ![c].out = out,
                         ![c].token = IF \E t \in storeCall[c].sel : Truthy(t)
                                        THEN CHOOSE t \in storeCall[c].sel : TRUE
                                        ELSE NULL,
                         ![c].sel = IF out = "ok" THEN secureStore["user_data"]
                                                  ELSE {}]
                   /\ UNCHANGED prev
              /\ UNCHANGED authStore
       ELSE IF Truthy(storeCall[c].token) /\ storeCall[c].sel # {}
         THEN /\ authStore' = [authStore EXCEPT
                                  !.user = {parse(s) : s \in storeCall[c].sel},
                                  !.token = storeCall[c].token,
                                  !.isAuthenticated = TRUE]
              /\ \E out \in ItemOutcomes :
                   Moved(c, "premium", out,
                         IF out = "ok" THEN secureStore["premium_status"]
                                       ELSE {})
       ELSE /\ Finished(c, "returned")
            /\ UNCHANGED authStore
    /\ UNCHANGED <<secureStore, asyncStorage, settingsStore, settingsCall>>
    /\ UNCHANGED <<connVars, tbl, scheduled, now, call, calls, last, callVars>>

\* the state after checkPremiumStatus() has read `premiumData`
PremiumChecked(premiumData) ==
    IF premiumData = {} THEN authStore
    ELSE LET data == parse(CHOOSE s \in premiumData : TRUE)
             isPremium == Param(data, "isPremium")
             expiryDate == Param(data, "expiryDate")
         IN IF Truthy(isPremium) /\ Truthy(expiryDate)
              THEN IF now < expiryDate
                     THEN [authStore EXCEPT !.isPremium = TRUE,
                                            !.subscriptionExpiry = expiryDate]
                     ELSE [authStore EXCEPT !.isPremium = FALSE,
                                            !.subscriptionExpiry = NULL]
            ELSE IF Truthy(isPremium)
              THEN [authStore EXCEPT !.isPremium = TRUE]
            ELSE authStore

\* checkPremiumStatus() found a subscription that has expired
Expired(premiumData) ==
    \E s \in premiumData :
        /\ Truthy(Param(parse(s), "isPremium"))
        /\ Truthy(Param(parse(s), "expiryDate"))
        /\ ~(now < Param(parse(s), "expiryDate"))

\* checkPremiumStatus() as signIn and loadStoredAuth await it: the read
\* resumes; an expired subscription is deleted; a rejected operation is
\* logged; then the call that awaits it returns
checkPremiumStatus_resumed(c) ==
    /\ storeCall[c].pc \in {"premium", "expired"}
    /\ storeCall[c].op \in {"signIn", "loadStoredAuth"}
    /\ IF storeCall[c].pc = "premium" /\ storeCall[c].out = "ok"
          /\ Expired(storeCall[c].sel)
         THEN /\ authStore' = PremiumChecked(storeCall[c].sel)
              /\ \E out \in ItemOutcomes :
                   /\ secureStore' = DeleteItem("premium_status", out)
                   /\ Moved(c, "expired", out, {})
       ELSE IF storeCall[c].pc = "premium" /\ storeCall[c].out = "ok"
         THEN /\ authStore' = PremiumChecked(storeCall[c].sel)
              /\ Finished(c, "returned")
              /\ UNCHANGED secureStore
       ELSE /\ Finished(c, "returned")
            /\ UNCHANGED <<secureStore, authStore>>
    /\ UNCHANGED <<asyncStorage, settingsStore, settingsCall>>
    /\ UNCHANGED <<connVars, tbl, scheduled, now, call, calls, last, callVars>>

\* savePremiumStatus(isPremium, expiryDate): setItemAsync(PREMIUM_STATUS_KEY,
\* ...) is issued
savePremiumStatus_call(c, isPremium, expiryDate) ==
    /\ StoreCalled(c)
    /\ \E out \in ItemOutcomes :
         /\ secureStore' = SetItem("premium_status",
                               stringify(Defined([isPremium |-> isPremium,
                                                  expiryDate |-> expiryDate])),
                               out)
         /\ Begun(c, "savePremiumStatus", "saved", out, {}, NULL, {},
                  [isPremium |-> isPremium, expiryDate |-> expiryDate])
    /\ UNCHANGED <<authStore, asyncStorage, settingsStore, settingsCall>>
    /\ UNCHANGED <<connVars, tbl, scheduled, now, call, calls, last, callVars>>

\* the write resumes: setPremiumStatus(isPremium, expiryDate), or the
\* rejection is logged and rethrown
savePremiumStatus_resumed(c) ==
    /\ storeCall[c].op = "savePremiumStatus"
    /\ storeCall[c].pc = "saved"
    /\ IF storeCall[c].out # "ok"
         THEN /\ Finished(c, "threw")
              /\ UNCHANGED authStore
         ELSE /\ authStore' = [authStore EXCEPT
                        !.isPremium = Truthy(storeCall[c].data.isPremium),
                        !.subscriptionExpiry = storeCall[c].data.expiryDate]
              /\ Finished(c, "returned")
    /\ UNCHANGED <<secureStore, asyncStorage, settingsStore, settingsCall>>
    /\ UNCHANGED <<connVars, tbl, scheduled, now, call, calls, last, callVars>>

----------------------------------------------------------------------------
(* Settings store: store/settingsStore *)

\* DEFAULT_SETTINGS, with two of the units and two of the notification
\* settings
DEFAULT_SETTINGS ==
    [theme |-> 1, language |-> 1,
     units |-> [weight |-> 1, temperature |-> 1],
     notifications |-> [labAlerts |-> 1, quietHoursStart |-> 1]]

IdleSettingsCall == [op |-> "none", pc |-> "idle", out |-> "ok",
                     patch |-> << >>, sel |-> {}, res |-> "none", n |-> 0]

\* a client makes one more call of the settings store
SettingsCalled(c) ==
    /\ settingsCall[c].pc = "idle"
    /\ settingsCall[c].n < MaxSettingsCalls

\* `{ ...a, ...b }`
Spread(a, b) == b @@ a

\* AsyncStorage.setItem(SETTINGS_KEY, JSON.stringify(settings)) is issued by
\* a setter of client c that will `set(patch)`
Persisted(c, op, patch) ==
    \E out \in ItemOutcomes :
        /\ asyncStorage' = IF out = "ok"
                             THEN {stringify(Spread(settingsStore, patch))}
                             ELSE asyncStorage
        /\ settingsCall' = [settingsCall EXCEPT ![c] =
               [IdleSettingsCall EXCEPT !.op = op, !.pc = "stored",
                                        !.out = out, !.patch = patch,
                                        !.n = settingsCall[c].n + 1]]

\* setTheme(theme)
setTheme(c, theme) ==
    /\ SettingsCalled(c)
    /\ Persisted(c, "setTheme", [theme |-> theme])
    /\ UNCHANGED <<settingsStore, secureStore, authStore, storeCall, prev>>
    /\ UNCHANGED <<connVars, tbl, scheduled, now, call, calls, last, callVars>>

\* setLanguage(language)
setLanguage(c, language) ==
    /\ SettingsCalled(c)
    /\ Persisted(c, "setLanguage", [language |-> language])
    /\ UNCHANGED <<settingsStore, secureStore, authStore, storeCall, prev>>
    /\ UNCHANGED <<connVars, tbl, scheduled, now, call, calls, last, callVars>>

\* setUnits(newUnits): `{ ...get().units, ...newUnits }`
setUnits(c, newUnits) ==
    /\ SettingsCalled(c)
    /\ Persisted(c, "setUnits",
                 [units |-> Spread(settingsStore.units, newUnits)])
    /\ UNCHANGED <<settingsStore, secureStore, authStore, storeCall, prev>>
    /\ UNCHANGED <<connVars, tbl, scheduled, now, call, calls, last, callVars>>

\* setNotificationSettings(newSettings)
setNotificationSettings(c, newSettings) ==
    /\ SettingsCalled(c)
    /\ Persisted(c, "setNotificationSettings",
                 [notifications |->
                     Spread(settingsStore.notifications, newSettings)])
    /\ UNCHANGED <<settingsStore, secureStore, authStore, storeCall, prev>>
    /\ UNCHANGED <<connVars, tbl, scheduled, now, call, calls, last, callVars>>

\* loadSettings(): AsyncStorage.getItem(SETTINGS_KEY) is issued
loadSettings(c) ==
    /\ SettingsCalled(c)
    /\ \E out \in ItemOutcomes :
         settingsCall' = [settingsCall EXCEPT ![c] =
             [IdleSettingsCall EXCEPT !.op = "loadSettings", !.pc = "read",
                                      !.out = out,
                                      !.sel = IF out = "ok" THEN asyncStorage
                                                            ELSE {},
                                      !.n = settingsCall[c].n + 1]]
    /\ UNCHANGED <<asyncStorage, settingsStore, secureStore, authStore,
                   storeCall, prev>>
    /\ UNCHANGED <<connVars, tbl, scheduled, now, call, calls, last, callVars>>

\* resetSettings(): AsyncStorage.removeItem(SETTINGS_KEY) is issued
resetSettings(c) ==
    /\ SettingsCalled(c)
    /\ \E out \in ItemOutcomes :
         /\ asyncStorage' = IF out = "ok" THEN {} ELSE asyncStorage
         /\ settingsCall' = [settingsCall EXCEPT ![c] =
                [IdleSettingsCall EXCEPT !.op = "resetSettings",
                                         !.pc = "stored", !.out = out,
                                         !.patch = DEFAULT_SETTINGS,
                                         !.n = settingsCall[c].n + 1]]
    /\ UNCHANGED <<settingsStore, secureStore, authStore, storeCall, prev>>
    /\ UNCHANGED <<connVars, tbl, scheduled, now, call, calls, last, callVars>>

\* the storage operation of a settings call resumes: a setter and
\* resetSettings `set` their change, or log and rethrow the rejection;
\* loadSettings sets what it read, `if (stored)`, or logs the rejection
settings_resumed(c) ==
    /\ settingsCall[c].pc # "idle"
    /\ IF settingsCall[c].out # "ok"
         THEN /\ settingsCall' = [settingsCall EXCEPT
                     ![c].pc = "idle",
                     ![c].res = IF settingsCall[c].op = "loadSettings"
                                  THEN "caught" ELSE "threw"]
              /\ UNCHANGED settingsStore
       ELSE IF settingsCall[c].op = "loadSettings"
         THEN /\ settingsStore' =
                    IF settingsCall[c].sel = {} THEN settingsStore
                    ELSE Spread(settingsStore,
                                parse(CHOOSE s \in settingsCall[c].sel : TRUE))
              /\ settingsCall' = [settingsCall EXCEPT ![c].pc = "idle",
                                                      ![c].res = "returned"]
       ELSE /\ settingsStore' = Spread(settingsStore, settingsCall[c].patch)
            /\ settingsCall' = [settingsCall EXCEPT ![c].pc = "idle",
                                                    ![c].res = "returned"]
    /\ UNCHANGED <<asyncStorage, secureStore, authStore, storeCall, prev>>
    /\ UNCHANGED <<connVars, tbl, scheduled, now, call, calls, last, callVars>>

----------------------------------------------------------------------------
(* The process *)

\* the process is stopped and started again: the stores are back in their
\* initial state, the suspended calls are gone, the storage of the device
\* is as it was
Restart ==
    /\ prev.boots < MaxBoots
    /\ authStore' = InitialAuth
    /\ storeCall' = [c \in Clients |-> IdleStoreCall]
    /\ prev' = [prev EXCEPT !.boot = IF \A c \in Clients :
                                            storeCall[c].pc = "idle"
                                       THEN prev.last
                                       ELSE Interrupted,
                            !.last = NoStoreCall,
                            !.sinceBoot = 0, !.boots = prev.boots + 1]
    /\ settingsStore' = DEFAULT_SETTINGS
    /\ settingsCall' = [c \in Clients |->
                           [IdleSettingsCall EXCEPT !.n = settingsCall[c].n]]
    /\ db' = NullHandle
    /\ conn' = [h \in DOMAIN conn |-> [conn[h] EXCEPT !.open = FALSE]]
    /\ ini' = [p \in Callers |-> IdleInit]
    /\ cls' = [pc |-> "idle", out |-> "ok", res |-> "none",
               closedSince |-> FALSE]
    /\ tbl' = IF journal.active THEN journal.rows ELSE tbl
    /\ journal' = NoJournal
    /\ call' = IdleCall
    /\ tx' = [c \in Clients |-> [IdleTx EXCEPT !.n = tx[c].n]]
    /\ auth' = [c \in Clients |-> [IdleAuth EXCEPT !.n = auth[c].n]]
    /\ UNCHANGED <<secureStore, asyncStorage, file, scheduled, now, calls,
                   last>>

----------------------------------------------------------------------------
(* Specifications *)

\* the rows of the stored file: one user with two vitals rows, two food
\* entries and two medications, the first with n intake logs
StoredRows(n) ==
    [users |-> [k \in UserIds |->
                  Row("users", [email |-> 1, name |-> 1, role |-> 1,
                                created_at |-> 0, updated_at |-> 0])],
     vitals |-> [k \in {1, 2} |->
                  Row("vitals", [user_id |-> 1, date |-> 1, weight |-> k,
                                 created_at |-> 0, updated_at |-> 0,
                                 synced |-> 1])],
     food_entries |-> [k \in {1, 2} |->
                  Row("food_entries", [user_id |-> 1, date |-> 1,
                                       meal_type |-> 1, food_name |-> 1,
                                       calories |-> k, created_at |-> 0,
                                       updated_at |-> 0, synced |-> 1])],
     medications |-> [k \in {1, 2} |->
                  Row("medications", [user_id |-> 1, name |-> k, dosage |-> 1,
                                      unit |-> 1, frequency |-> 1, times |-> 1,
                                      start_date |-> 1, created_at |-> 0,
                                      updated_at |-> 0, synced |-> 1])],
     medication_logs |-> [k \in 1..n |->
                  Row("medication_logs", [medication_id |-> 1, user_id |-> 1,
                                          scheduled_time |-> 0, status |-> 1,
                                          created_at |-> 0, synced |-> 1])],
     sync_queue |-> << >>]

EmptyRows == [t \in Tables |-> << >>]

Init ==
    /\ db = NullHandle
    /\ conn = << >>
    /\ \/ file = [tables |-> FALSE, indexes |-> FALSE] /\ tbl = EmptyRows
       \/ /\ file = [tables |-> TRUE, indexes |-> TRUE]
          /\ \E n \in 0..MaxLogs : tbl = StoredRows(n)
    /\ ini = [p \in Callers |-> IdleInit]
    /\ cls = [pc |-> "idle", out |-> "ok", res |-> "none", closedSince |-> FALSE]
    /\ scheduled = {[medicationId |-> 1, time |-> 1]}
    /\ now = 0
    /\ call = IdleCall
    /\ calls = 0
    /\ last = NoCall
    /\ journal = NoJournal
    /\ tx = [c \in Clients |-> IdleTx]
    /\ auth = [c \in Clients |-> IdleAuth]
    /\ secureStore = NoSecrets
    /\ authStore = InitialAuth
    /\ storeCall = [c \in Clients |-> IdleStoreCall]
    /\ prev = InitialPrev
    /\ asyncStorage = {}
    /\ settingsStore = DEFAULT_SETTINGS
    /\ settingsCall = [c \in Clients |-> IdleSettingsCall]

\* the connection manager on its own: initDatabase() and closeDatabase() are
\* exported and nothing in lib/database orders their calls, so the calls of
\* the two callers and of closeDatabase() interleave freely
NextConn ==
    \/ \E p \in Callers : initDatabase_call(p)
    \/ \E p \in Callers : initDatabase_opened(p)
    \/ \E p \in Callers : initDatabase_pragma(p)
    \/ \E p \in Callers : initDatabase_tables(p)
    \/ \E p \in Callers : initDatabase_indexes(p)
    \/ closeDatabase_call
    \/ closeDatabase_closed

SpecConn == Init /\ [][NextConn]_vars

\* what the screens pass to the services
RecordIds == 1..2

CreateVitalInputs == Partial({"weight"})

UpdateVitalInputs == Partial(VitalFields)

CreateFoodInputs ==
    {[userId |-> u, name |-> 1, mealType |-> 1] @@ d :
        u \in UserIds \cup UnknownUserIds, d \in Partial({"calories"})}

UpdateFoodInputs == Partial({"name", "calories"})

CreateMedicationInputs ==
    {[userId |-> u, name |-> 1, dosage |-> 1, frequency |-> 1] @@ d :
        u \in UserIds \cup UnknownUserIds, d \in Partial({"reminderEnabled"})}

UpdateMedicationInputs == Partial({"dosage"}) \cup {[timeOfDay |-> 1]}

\* initDatabase() called by one caller, one call after the other, and the
\* record services called by the screens
Next ==
    \/ initDatabase_call(Caller)
    \/ initDatabase_opened(Caller)
    \/ initDatabase_pragma(Caller)
    \/ initDatabase_tables(Caller)
    \/ initDatabase_indexes(Caller)
    \/ \E u \in UserIds \cup UnknownUserIds, d \in CreateVitalInputs :
          createVitalRecord(u, d)
    \/ \E id \in RecordIds, d \in UpdateVitalInputs : updateVitalRecord(id, d)
    \/ \E id \in RecordIds : deleteVitalRecord(id)
    \/ \E d \in CreateFoodInputs : createFoodEntry_call(d)
    \/ createFoodEntry_inserted
    \/ \E id \in RecordIds, d \in UpdateFoodInputs : updateFoodEntry(id, d)
    \/ \E id \in RecordIds : deleteFoodEntry(id)
    \/ \E d \in CreateMedicationInputs : createMedication_call(d)
    \/ createMedication_inserted
    \/ \E id \in RecordIds, d \in UpdateMedicationInputs :
          updateMedication_call(id, d)
    \/ updateMedication_updated
    \/ updateMedication_selected
    \/ \E id \in RecordIds : deleteMedication_call(id)
    \/ deleteMedication_cancelled
    \/ deleteMedication_deleted
    \/ \E m \in RecordIds, u \in UserIds, taken \in {0, 1} :
          logMedicationIntake_call(m, u, taken, NULL)
    \/ logMedicationIntake_inserted

Spec == Init /\ [][Next]_vars

\* initDatabase() called by one caller, the record services called by the
\* screens, and clearDatabase()
NextClear ==
    \/ Next
    \/ clearDatabase_call
    \/ clearDatabase_resumed

SpecClear == Init /\ [][NextClear]_vars

\* the users of the stored file the queries run on
QueryUsers == {1, 2}

\* a stored file with two users and MaxRows vitals rows and food entries:
\* row k of both tables belongs to owner[k] and has date[k]; the first row
\* was created before the others
StoredForQueries(owner, date) ==
    [StoredRows(MaxLogs) EXCEPT
        !["users"] = [k \in QueryUsers |->
                        Row("users", [email |-> k, name |-> 1, role |-> 1,
                                      created_at |-> 0, updated_at |-> 0])],
        !["vitals"] = [k \in 1..MaxRows |->
                        Row("vitals", [user_id |-> owner[k], date |-> date[k],
                                       weight |-> k,
                                       created_at |-> IF k = 1 THEN 0 ELSE 1,
                                       updated_at |-> 1, synced |-> 1])],
        !["food_entries"] = [k \in 1..MaxRows |->
                        Row("food_entries",
                            [user_id |-> owner[k], date |-> date[k],
                             meal_type |-> 1, food_name |-> 1,
                             calories |-> k,
                             created_at |-> IF k = 1 THEN 0 ELSE 1,
                             updated_at |-> 1, synced |-> 1])]]

InitQuery ==
    /\ db = NullHandle
    /\ conn = << >>
    /\ file = [tables |-> TRUE, indexes |-> TRUE]
    /\ \E owner \in [1..MaxRows -> QueryUsers], date \in [1..MaxRows -> 1..2] :
          \* (the rows of the second user are all of the first date)
          /\ \A k \in 1..MaxRows : owner[k] = 2 => date[k] = 1
          /\ tbl = StoredForQueries(owner, date)
    /\ ini = [p \in Callers |-> IdleInit]
    /\ cls = [pc |-> "idle", out |-> "ok", res |-> "none", closedSince |-> FALSE]
    /\ scheduled = {}
    /\ now = 2 * TicksPerDay
    /\ call = IdleCall
    /\ calls = 0
    /\ last = NoCall
    /\ journal = NoJournal
    /\ tx = [c \in Clients |-> IdleTx]
    /\ auth = [c \in Clients |-> IdleAuth]
    /\ secureStore = NoSecrets
    /\ authStore = InitialAuth
    /\ storeCall = [c \in Clients |-> IdleStoreCall]
    /\ prev = InitialPrev
    /\ asyncStorage = {}
    /\ settingsStore = DEFAULT_SETTINGS
    /\ settingsCall = [c \in Clients |-> IdleSettingsCall]

\* `limit` as the callers pass it: omitted, or a number
Limits == {NULL, 0, 1, 2}

\* the screens query the stored records
NextQuery ==
    \/ initDatabase_call(Caller)
    \/ initDatabase_opened(Caller)
    \/ initDatabase_pragma(Caller)
    \/ initDatabase_tables(Caller)
    \/ initDatabase_indexes(Caller)
    \/ \E u \in QueryUsers, limit \in Limits : getVitalRecords(u, limit)
    \/ \E u \in QueryUsers, limit \in Limits : getFoodEntries(u, limit)
    \/ \E u \in QueryUsers, days \in {NULL, 1} : getMedicationAdherence(u, days)
    \/ \E u \in QueryUsers, date \in {1, 1 + TicksPerDay} :
          getDailyNutritionSummary(u, date)

SpecQuery == InitQuery /\ [][NextQuery]_vars

\* the statements the callers of executeTransaction() pass: an INSERT of a
\* vitals row, an UPDATE of that row, a DELETE of a stored row, and an INSERT
\* that names no `date` and is rejected
TxnStatements ==
    {[kind |-> "insert", t |-> "vitals", id |-> 3,
      r |-> [user_id |-> 1, date |-> 1, created_at |-> 0, updated_at |-> 0]],
     [kind |-> "update", t |-> "vitals", id |-> 3, r |-> [weight |-> 1]],
     [kind |-> "delete", t |-> "vitals", id |-> 1, r |-> << >>],
     [kind |-> "insert", t |-> "vitals", id |-> 4,
      r |-> [user_id |-> 1, created_at |-> 0, updated_at |-> 0]]}

TxnInputs == UNION {[1..n -> TxnStatements] : n \in 0..MaxTxnLen}

\* executeTransaction() called by one client, one call after the other
NextTxn ==
    \/ initDatabase_call(Caller)
    \/ initDatabase_opened(Caller)
    \/ initDatabase_pragma(Caller)
    \/ initDatabase_tables(Caller)
    \/ initDatabase_indexes(Caller)
    \/ \E qs \in TxnInputs : executeTransaction_call("A", qs)
    \/ executeTransaction_next("A")
    \/ executeTransaction_committed("A")
    \/ executeTransaction_rolledback("A")

SpecTxn == Init /\ [][NextTxn]_vars

\* two INSERTs in one call
OverlapInputs ==
    {qs \in TxnInputs : Len(qs) = 2 /\ \A i \in 1..2 : qs[i].kind = "insert"}

\* executeTransaction() called by two clients while a screen calls a record
\* service: nothing in lib/database orders these calls
NextTxnOverlap ==
    \/ initDatabase_call(Caller)
    \/ initDatabase_opened(Caller)
    \/ initDatabase_pragma(Caller)
    \/ initDatabase_tables(Caller)
    \/ initDatabase_indexes(Caller)
    \/ \E c \in Clients, qs \in OverlapInputs : executeTransaction_call(c, qs)
    \/ \E c \in Clients : executeTransaction_next(c)
    \/ \E c \in Clients : executeTransaction_committed(c)
    \/ \E c \in Clients : executeTransaction_rolledback(c)
    \/ \E u \in UserIds : createVitalRecord(u, << >>)

SpecTxnOverlap == Init /\ [][NextTxnOverlap]_vars

\* the emails the clients type: the stored user's in capitals, another one,
\* and a text that is no email
Emails == {11, 2, 10}

\* a name of one letter, a password of five, and otherwise valid inputs
SignUpInputs ==
    {[name |-> 2, email |-> e, password |-> 6] : e \in Emails \ {2}}
    \cup {[name |-> 1, email |-> 2, password |-> 6],
          [name |-> 2, email |-> 2, password |-> 5],
          [name |-> 2, email |-> 2, password |-> 6, role |-> 2]}

Credentials ==
    {[email |-> e, password |-> 6] : e \in Emails}
    \cup {[email |-> 11, password |-> 0]}

ProfileInputs == {[name |-> 2]} \cup {[email |-> e] : e \in Emails \ {2}}

\* the auth service called by two clients: nothing orders the calls of the
\* screens, and each is suspended at its awaits while the other runs
NextAuth ==
    \/ initDatabase_call(Caller)
    \/ initDatabase_opened(Caller)
    \/ initDatabase_pragma(Caller)
    \/ initDatabase_tables(Caller)
    \/ initDatabase_indexes(Caller)
    \/ \E c \in Clients, d \in SignUpInputs : signUp_call(c, d)
    \/ \E c \in Clients : signUp_resumed(c)
    \/ \E c \in Clients, d \in Credentials : signIn_call(c, d)
    \/ \E c \in Clients : signIn_resumed(c)
    \/ \E c \in Clients, u \in UserIds \cup UnknownUserIds, d \in ProfileInputs :
          updateUserProfile_call(c, u, d)
    \/ \E c \in Clients : updateUserProfile_resumed(c)
    \/ \E c \in Clients, u \in UserIds, p \in {5, 7} :
          changePassword_call(c, u, 6, p)
    \/ \E c \in Clients : changePassword_resumed(c)

SpecAuth == Init /\ [][NextAuth]_vars

\* the process has started on a device whose storage holds no item, on the
\* second day
InitStores ==
    /\ db = NullHandle
    /\ conn = << >>
    /\ file = [tables |-> FALSE, indexes |-> FALSE]
    /\ tbl = EmptyRows
    /\ ini = [p \in Callers |-> IdleInit]
    /\ cls = [pc |-> "idle", out |-> "ok", res |-> "none", closedSince |-> FALSE]
    /\ scheduled = {}
    /\ now = TicksPerDay
    /\ call = IdleCall
    /\ calls = 0
    /\ last = NoCall
    /\ journal = NoJournal
    /\ tx = [c \in Clients |-> IdleTx]
    /\ auth = [c \in Clients |-> IdleAuth]
    /\ secureStore = NoSecrets
    /\ authStore = InitialAuth
    /\ storeCall = [c \in Clients |-> IdleStoreCall]
    /\ prev = InitialPrev
    /\ asyncStorage = {}
    /\ settingsStore = DEFAULT_SETTINGS
    /\ settingsCall = [c \in Clients |-> IdleSettingsCall]

\* expiry dates of a subscription: none, one that has passed, a later one
ExpiryDates == {NULL, 1, 5}

\* the token the auth service issued with user u
TokenOf(u) == u.id

\* the synchronous actions of the auth store called by the clients cs
SetterCalls(cs) ==
    \/ \E c \in cs, u \in StoreUsers : setUser(c, {u})
    \/ \E c \in cs : setUser(c, {})
    \/ \E c \in cs, t \in Tokens \cup {NULL} : setToken(c, t)
    \/ \E c \in cs : setPremiumStatus(c, TRUE, 5)

\* signIn, signOut and loadStoredAuth called by the clients cs
SignCalls(cs) ==
    \/ \E c \in cs, u \in StoreUsers : authStore_signIn_call(c, u, TokenOf(u))
    \/ \E c \in cs : authStore_signIn_resumed(c)
    \/ \E c \in cs : signOut_call(c)
    \/ \E c \in cs : signOut_resumed(c)
    \/ \E c \in cs : loadStoredAuth_call(c)
    \/ \E c \in cs : loadStoredAuth_resumed(c)
    \/ \E c \in cs : checkPremiumStatus_resumed(c)

\* savePremiumStatus called by the clients cs
PremiumCalls(cs) ==
    \/ \E c \in cs, e \in ExpiryDates : savePremiumStatus_call(c, 1, e)
    \/ \E c \in cs : savePremiumStatus_call(c, 0, NULL)
    \/ \E c \in cs : savePremiumStatus_resumed(c)

\* the auth store called by one client, one call after the other, and the
\* process started again
NextSession ==
    \/ SetterCalls({"A"})
    \/ SignCalls({"A"})
    \/ PremiumCalls({"A"})
    \/ Restart

SpecSession == InitStores /\ [][NextSession]_vars

\* signIn, signOut and loadStoredAuth called by two clients, a call
\* suspended at its awaits while the other runs, and the setters called by
\* one of them
NextStore ==
    \/ SetterCalls({"A"})
    \/ SignCalls(Clients)
    \/ Restart

SpecStore == InitStores /\ [][NextStore]_vars

\* the values the settings screens choose from
SettingValues == {1, 2}

\* the settings store called by two clients, and the process started again
NextSettings ==
    \/ \E c \in Clients, v \in SettingValues : setTheme(c, v)
    \/ \E c \in Clients, v \in SettingValues : setLanguage(c, v)
    \/ \E c \in Clients, v \in SettingValues : setUnits(c, [weight |-> v])
    \/ \E c \in Clients, v \in SettingValues :
          setNotificationSettings(c, [labAlerts |-> v])
    \/ \E c \in Clients : loadSettings(c)
    \/ \E c \in Clients : resetSettings(c)
    \/ \E c \in Clients : settings_resumed(c)
    \/ Restart

SpecSettings == InitStores /\ [][NextSettings]_vars

----------------------------------------------------------------------------
(* Properties of the connection manager *)

\* C7: getDatabase() returns a handle only when an initDatabase() call has
\* completed on it: foreign-key enforcement, the tables and the indexes are
\* applied, and no initDatabase() call is suspended between opening the file
\* and returning.
C7_GetDatabaseOnlyAfterInit ==
    getDatabase # NullHandle =>
        /\ conn[db].fk /\ file.tables /\ file.indexes
        /\ \A p \in Callers : ini[p].pc \notin {"pragma", "tables", "indexes"}

\* C8: when initDatabase() calls overlap, at no time do two distinct open
\* handles exist.
C8_AtMostOneOpenHandle ==
    Cardinality({h \in DOMAIN conn : conn[h].open}) <= 1

\* C9: an initDatabase() call made while a handle exists returns that handle
\* and opens nothing, runs no pragma, schema or index statement; sequential
\* calls with no closeDatabase() open the database at most once.
C9_InitIdempotent ==
    [][/\ Len(conn') <= 1
       /\ (db # NullHandle /\ ini[Caller].pc = "idle"
                           /\ ini'[Caller] # ini[Caller])
            => /\ ini'[Caller].pc = "idle"
               /\ ini'[Caller].res = "returned"
               /\ ini'[Caller].ret = db
               /\ UNCHANGED <<db, conn, file>>]_vars

\* a call made after a failed initDatabase() returned the handle the failed
\* call had opened: one open, and a step of the initialization never ran
C9_SecondCallReturnedHandle ==
    /\ ini[Caller].res = "returned"
    /\ ini[Caller].ret = db
    /\ db # NullHandle
    /\ Len(conn) = 1
    /\ ~conn[db].fk \/ ~file.tables \/ ~file.indexes

\* C10: after closeDatabase() has completed, getDatabase() throws and
\* isDatabaseInitialized() is false until a later initDatabase() completes
\* (stated for the calls of one caller, so that no two calls overlap).
C10_ClosedUntilInitCompletes ==
    (cls.closedSince /\ ini["HomeScreen"] = IdleInit)
      => getDatabase = NullHandle /\ ~isDatabaseInitialized

----------------------------------------------------------------------------
(* Properties of the record services *)

\* initDatabase() returned and every step of the initialization ran on the
\* handle
InitCompleted ==
    /\ ini[Caller].res = "returned"
    /\ db # NullHandle
    /\ conn[db].fk /\ file.tables /\ file.indexes

CreateOps == {"createVitalRecord", "createFoodEntry", "createMedication",
              "logMedicationIntake"}

UpdateOps == {"updateVitalRecord", "updateFoodEntry", "updateMedication"}

DeleteOps == {"deleteVitalRecord", "deleteFoodEntry", "deleteMedication"}

\* the table a service call is about
TableOf(op) ==
    CASE op \in {"createVitalRecord", "updateVitalRecord", "deleteVitalRecord"}
           -> "vitals"
      [] op \in {"createFoodEntry", "updateFoodEntry", "deleteFoodEntry"}
           -> "food_entries"
      [] op \in {"createMedication", "updateMedication", "deleteMedication"}
           -> "medications"
      [] op = "logMedicationIntake" -> "medication_logs"

\* the column of table t that holds field f of its records
ColumnOf(t, f) ==
    CASE t = "food_entries" /\ f = "name" -> "food_name"
      [] t = "food_entries" /\ f = "carbs" -> "carbohydrates"
      [] t = "medications" /\ f = "timeOfDay" -> "times"
      [] f = "mealType" -> "meal_type"
      [] f = "reminderEnabled" -> "reminder_enabled"
      [] f = "userId" -> "user_id"
      [] OTHER -> f

\* the call a step starts: op, id and input
Started ==
    IF call'.pc = "idle"
      THEN [op |-> last'.op, id |-> last'.id, data |-> last'.data]
      ELSE [op |-> call'.op, id |-> call'.id, data |-> call'.data]

\* a step changes at most the columns cols, updated_at and synced of row id
\* of table t, and adds or removes no row
Frame(t, id, cols) ==
    \A u \in Tables :
        /\ DOMAIN tbl'[u] = DOMAIN tbl[u]
        /\ \A k \in DOMAIN tbl[u] : \A c \in Columns[u] :
              tbl'[u][k][c] # tbl[u][k][c] =>
                  /\ u = t /\ k = id
                  /\ c \in cols \cup {"updated_at", "synced"}

\* C3: an update of an existing row changes only the columns of the supplied
\* fields, the update timestamp and the synced flag of that row; every other
\* column and every other row of every table keeps its value.
C3_UpdateFrame ==
    [][/\ (/\ calls' = calls + 1
           /\ Started.op \in UpdateOps
           /\ Started.id \in DOMAIN tbl[TableOf(Started.op)])
            => Frame(TableOf(Started.op), Started.id,
                     {ColumnOf(TableOf(Started.op), f) :
                         f \in DOMAIN Started.data})
       /\ (calls' = calls /\ call.op \in UpdateOps) => tbl' = tbl]_vars

\* updateVitalRecord with only `notes` supplied has returned: the notes are
\* the supplied ones, the weight is the stored one, the timestamp moved
C3_UpdatedOnlyNotes ==
    /\ last.op = "updateVitalRecord" /\ last.out = "ok"
    /\ DOMAIN last.data = {"notes"}
    /\ last.pre # {}
    /\ LET before == CHOOSE r \in last.pre : TRUE
           after == tbl["vitals"][last.id]
       IN /\ after["notes"] = last.data["notes"]
          /\ after["notes"] # before["notes"]
          /\ after["weight"] = before["weight"] /\ after["weight"] # NULL
          /\ after["updated_at"] # before["updated_at"]
          /\ \E k \in DOMAIN tbl["vitals"] : k # last.id

\* C4: a successful update of an existing row leaves the row with synced = 0
\* and an updated_at strictly greater than the one it had before the call.
C4_UpdateStampsRow ==
    (/\ InitCompleted
     /\ call.pc = "idle"
     /\ last.op \in UpdateOps /\ last.out = "ok"
     /\ last.pre # {})
      => LET before == CHOOSE r \in last.pre : TRUE
             after == tbl[TableOf(last.op)][last.id]
         IN /\ after["synced"] = 0
            /\ after["updated_at"] > before["updated_at"]

\* the failures of a call that come from outside it: the storage rejected a
\* statement it would otherwise run, no handle was there, the tables were
\* missing or the handle closed, the notification service failed
Faults == {"io", "nohandle", "unusable", "notify"}

\* C1: deleteMedication(id) on a medication with N >= 0 logs, with
\* foreign-key enforcement on: after the call returned or threw, the
\* medication and all of its logs are present or all are absent, and unless
\* a fault stopped the call they are absent.
C1_DeleteMedicationAtomic ==
    (/\ InitCompleted
     /\ call.pc = "idle"
     /\ last.op = "deleteMedication" /\ last.err # "nohandle"
     /\ last.fk
     /\ last.pre.med)
      => LET medHere == last.id \in DOMAIN tbl["medications"]
             logsHere == last.pre.logs \cap DOMAIN tbl["medication_logs"]
         IN /\ \/ medHere /\ logsHere = last.pre.logs
               \/ ~medHere /\ logsHere = {}
            /\ last.err \notin Faults =>
                  /\ last.out = "ok"
                  /\ ~medHere /\ logsHere = {}

MutatingOps == CreateOps \cup UpdateOps \cup DeleteOps

\* table_name of a sync_queue row as a text code
TableCode(t) ==
    CASE t = "vitals" -> 1
      [] t = "food_entries" -> 2
      [] t = "medications" -> 3
      [] t = "medication_logs" -> 4

\* operation of a sync_queue row as a text code: insert, update, delete
OperationCode(op) ==
    CASE op \in CreateOps -> 1
      [] op \in UpdateOps -> 2
      [] op \in DeleteOps -> 3

\* the sync_queue rows that match the completed call
Enqueued ==
    {k \in DOMAIN tbl["sync_queue"] :
        /\ tbl["sync_queue"][k]["table_name"] = TableCode(TableOf(last.op))
        /\ tbl["sync_queue"][k]["record_id"] = last.id
        /\ tbl["sync_queue"][k]["operation"] = OperationCode(last.op)}

\* C2: a successful mutating call has added exactly one sync_queue row that
\* matches it; a call that failed has added none.
C2_SyncQueueEntry ==
    (InitCompleted /\ call.pc = "idle" /\ last.op \in MutatingOps)
      => Cardinality(Enqueued) = IF last.out = "ok" THEN 1 ELSE 0

\* what the get-by-id that matches a create or a delete returns: the record in a
\* one-element set, or {} for null
GetById(op, id) ==
    CASE op = "createVitalRecord" -> getVitalRecord(id)
      [] op = "createFoodEntry" -> getFoodEntry(id)
      [] op = "createMedication" -> getMedication(id)
      [] op = "deleteVitalRecord" -> getVitalRecord(id)
      [] op = "deleteFoodEntry" -> getFoodEntry(id)
      [] op = "deleteMedication" -> getMedication(id)

\* the user a create names
UserOf(c) ==
    IF c.op = "createVitalRecord" THEN c.pre.userId ELSE c.data["userId"]

\* C5: a create for an existing user that no fault stops returns, and the
\* matching get-by-id then returns a record with the generated id, synced
\* false, and every supplied field equal to the supplied value.
C5_CreateThenGet ==
    (/\ InitCompleted
     /\ call.pc = "idle"
     /\ last.op \in {"createVitalRecord", "createFoodEntry", "createMedication"}
     /\ last.err \notin Faults
     /\ UserOf(last) \in DOMAIN tbl["users"])
      => /\ last.out = "ok"
         /\ GetById(last.op, last.id) # {}
         /\ \A r \in GetById(last.op, last.id) :
               /\ r["id"] = last.id
               /\ r["synced"] = 0
               /\ \A f \in DOMAIN last.data :
                     f \in DOMAIN r /\ r[f] = last.data[f]

\* C6: every child row refers to existing parent rows: its user_id to a
\* user, a log's medication_id to a medication.
C6_ReferentialIntegrity ==
    \A t \in Tables : \A k \in DOMAIN tbl[t] : \A fk \in ForeignKeys[t] :
        tbl[t][k][fk[1]] \in DOMAIN tbl[fk[2]]


----------------------------------------------------------------------------
(* Properties of executeTransaction *)

\* the rows after statement q took effect on `rows`
Apply(rows, q) ==
    CASE q.kind = "insert" ->
            [rows EXCEPT ![q.t] = With(rows[q.t], q.id, Row(q.t, q.r))]
      [] q.kind = "update" ->
            IF q.id \in DOMAIN rows[q.t]
              THEN [rows EXCEPT ![q.t][q.id] =
                       [c \in Columns[q.t] |->
                           IF c \in DOMAIN q.r THEN q.r[c] ELSE rows[q.t][q.id][c]]]
              ELSE rows
      [] q.kind = "delete" ->
            [rows EXCEPT ![q.t] = Without(rows[q.t], {q.id})]

\* the rows after the statements qs took effect on `rows`, first to last
RECURSIVE Applied(_, _)
Applied(rows, qs) ==
    IF qs = << >> THEN rows
    ELSE Applied(Apply(rows, Head(qs)), Tail(qs))

\* C11: a completed executeTransaction(queries) either returned, and then
\* every statement ran and the rows are those of the statements applied in
\* the given order, or threw, and then the rows are those from before the
\* call; in both cases no transaction is left open.
C11_TransactionAtomic ==
    LET t == tx["A"]
    IN (t.pc = "idle" /\ t.res # "none") =>
          /\ t.res \in {"returned", "threw"}
          /\ ~journal.active
          /\ t.res = "returned" =>
                /\ t.i = Len(t.qs) /\ t.err = "none"
                /\ tbl = Applied(t.pre, t.qs)
          /\ t.res = "threw" => t.err # "none" /\ tbl = t.pre

\* the second of two statements was rejected after the first had inserted a
\* row: the call threw and the row is gone
C11_SecondStatementFailed ==
    LET t == tx["A"]
    IN /\ t.pc = "idle" /\ t.res = "threw"
       /\ t.i = 2 /\ t.err = "constraint"
       /\ t.qs[1].kind = "insert"
       /\ t.undid = "own"
       /\ t.qs[1].id \notin DOMAIN tbl["vitals"]

\* C12: after a completed initialization, while a transaction is open, a step of anyone but the call that
\* began it changes neither the rows nor the transaction: no statement of
\* another call runs inside it, and another call's BEGIN is rejected without
\* touching it.
C12_TransactionsIsolated ==
    [][(InitCompleted /\ journal.active) =>
          (tx'[journal.owner] = tx[journal.owner]
              => tbl' = tbl /\ journal' = journal)]_vars

----------------------------------------------------------------------------
(* Properties of delete, update and the list queries *)

\* C13: a delete that no fault stops returns; afterwards the get-by-id of
\* that id returns null, the table holds exactly its other rows as they were,
\* every other table is as before (but for the logs of a deleted
\* medication), and when the id was absent nothing changed at all.
C13_DeleteIdempotent ==
    (/\ InitCompleted
     /\ call.pc = "idle"
     /\ last.op \in DeleteOps
     /\ last.err \notin Faults)
      => LET t == TableOf(last.op)
             before == last.pre.tbl
         IN /\ last.out = "ok"
            /\ GetById(last.op, last.id) = {}
            /\ tbl[t] = Without(before[t], {last.id})
            /\ \A u \in Tables \ {t} :
                  IF last.op = "deleteMedication" /\ u = "medication_logs"
                    THEN tbl[u] = Without(before[u], last.pre.logs)
                    ELSE tbl[u] = before[u]
            /\ last.id \notin DOMAIN before[t] => tbl = before

\* C14: an update whose id matches no row changes no table and no
\* scheduled reminder in any of its steps, and unless a fault stops it, it
\* returns.
C14_UpdateOfAbsentRow ==
    [][InitCompleted =>
          /\ (/\ calls' = calls + 1
              /\ Started.op \in UpdateOps
              /\ Started.id \notin DOMAIN tbl[TableOf(Started.op)])
                => tbl' = tbl /\ scheduled' = scheduled
          /\ (calls' = calls /\ call.op \in UpdateOps /\ call.pre = {})
                => tbl' = tbl /\ scheduled' = scheduled
          /\ (/\ last' # last
              /\ last'.op \in UpdateOps
              /\ last'.pre = {}
              /\ last'.err \notin Faults)
                => last'.out = "ok"]_vars

\* the table a list query reads
ListedTable(op) == IF op = "getVitalRecords" THEN "vitals" ELSE "food_entries"

\* the owner and the creation time of a returned record
OwnerIn(op, r) == IF op = "getVitalRecords" THEN r["userId"] ELSE r["user_id"]

CreatedIn(op, r) ==
    IF op = "getVitalRecords" THEN r["createdAt"] ELSE r["created_at"]

\* C15: a list query that returned gives only rows of userId, each once and
\* as stored, at most `limit` of them (30 when omitted) and all of them when
\* there are no more than that, by date descending and then creation time
\* descending, and no row left out sorts before a returned one.
C15_ListNewestFirst ==
    (last.op \in {"getVitalRecords", "getFoodEntries"} /\ last.out = "ok")
      => LET t == ListedTable(last.op)
             r == last.ret
             limit == IF last.data["limit"] = NULL THEN 30
                                                   ELSE last.data["limit"]
             owned == {k \in DOMAIN tbl[t] :
                          tbl[t][k]["user_id"] = last.data["userId"]}
             ids == {r[i]["id"] : i \in DOMAIN r}
         IN /\ ids \subseteq owned
            /\ Cardinality(ids) = Len(r)
            /\ \A i \in DOMAIN r :
                  /\ OwnerIn(last.op, r[i]) = last.data["userId"]
                  /\ r[i]["date"] = tbl[t][r[i]["id"]]["date"]
                  /\ CreatedIn(last.op, r[i]) = tbl[t][r[i]["id"]]["created_at"]
            /\ Len(r) <= limit
            /\ Len(r) = limit \/ ids = owned
            /\ \A i \in DOMAIN r : i + 1 \in DOMAIN r =>
                  \/ r[i]["date"] > r[i + 1]["date"]
                  \/ /\ r[i]["date"] = r[i + 1]["date"]
                     /\ CreatedIn(last.op, r[i]) >= CreatedIn(last.op, r[i + 1])
            /\ \A k \in owned \ ids : \A i \in DOMAIN r :
                  \/ r[i]["date"] > tbl[t][k]["date"]
                  \/ /\ r[i]["date"] = tbl[t][k]["date"]
                     /\ CreatedIn(last.op, r[i]) >= tbl[t][k]["created_at"]

\* getVitalRecords with limit 2 for a user who owns all three rows, one of
\* an earlier date: the two returned are of the later date, the one created
\* last first
C15_ListedTwoOfThree ==
    /\ last.op = "getVitalRecords" /\ last.out = "ok"
    /\ last.data["limit"] = 2
    /\ Len(last.ret) = 2
    /\ Cardinality({k \in DOMAIN tbl["vitals"] :
                       tbl["vitals"][k]["user_id"] = last.data["userId"]}) = 3
    /\ last.ret[1]["date"] = last.ret[2]["date"]
    /\ last.ret[1]["createdAt"] > last.ret[2]["createdAt"]
    /\ \E k \in DOMAIN tbl["vitals"] :
          tbl["vitals"][k]["date"] < last.ret[2]["date"]

\* C16: getMedicationAdherence(userId, N) that no fault stops returns the
\* number of the user's logs of the last N days as totalDoses, with
\* takenDoses + missedDoses = totalDoses and adherenceRate =
\* takenDoses / totalDoses * 100, or 0 when there is no such log.
C16_AdherenceCounts ==
    (/\ InitCompleted
     /\ last.op = "getMedicationAdherence"
     /\ last.err \notin Faults)
      => LET days == IF last.data["days"] = NULL THEN 7 ELSE last.data["days"]
             logs == {k \in DOMAIN tbl["medication_logs"] :
                        /\ tbl["medication_logs"][k]["user_id"]
                              = last.data["userId"]
                        /\ tbl["medication_logs"][k]["created_at"]
                              >= now - days * TicksPerDay}
         IN /\ last.out = "ok"
            /\ last.ret["totalDoses"] = Cardinality(logs)
            /\ last.ret["takenDoses"] + last.ret["missedDoses"]
                  = last.ret["totalDoses"]
            /\ last.ret["adherenceRate"] =
                  IF last.ret["totalDoses"] > 0
                    THEN (last.ret["takenDoses"] * 100)
                            \div last.ret["totalDoses"]
                    ELSE 0

\* the sum of column c over the rows ids of food_entries, a missing value
\* counting 0
RECURSIVE NutrientSum(_, _)
NutrientSum(ids, c) ==
    IF ids = {} THEN 0
    ELSE LET k == CHOOSE i \in ids : TRUE
         IN (IF tbl["food_entries"][k][c] = NULL
               THEN 0 ELSE tbl["food_entries"][k][c])
            + NutrientSum(ids \ {k}, c)

\* C17: getDailyNutritionSummary(userId, date) that no fault stops returns,
\* for each nutrient, the sum over the user's entries of that day, and their
\* number as entriesCount; all of them 0 when there is no such entry.
C17_DailySummary ==
    (/\ InitCompleted
     /\ last.op = "getDailyNutritionSummary"
     /\ last.err \notin Faults)
      => LET entries == {k \in DOMAIN tbl["food_entries"] :
                           /\ tbl["food_entries"][k]["user_id"]
                                 = last.data["userId"]
                           /\ DayOf(tbl["food_entries"][k]["date"])
                                 = DayOf(last.data["date"])}
         IN /\ last.out = "ok"
            /\ last.ret["entriesCount"] = Cardinality(entries)
            /\ last.ret["totalCalories"] = NutrientSum(entries, "calories")
            /\ last.ret["totalProtein"] = NutrientSum(entries, "protein")
            /\ last.ret["totalCarbs"] = NutrientSum(entries, "carbohydrates")
            /\ last.ret["totalFat"] = NutrientSum(entries, "fat")
            /\ last.ret["totalSodium"] = NutrientSum(entries, "sodium")
            /\ last.ret["totalPotassium"] = NutrientSum(entries, "potassium")
            /\ last.ret["totalPhosphorus"] = NutrientSum(entries, "phosphorus")
            /\ last.ret["totalFluid"] = NutrientSum(entries, "fluid")


----------------------------------------------------------------------------
(* Properties of the auth service *)

\* the signIn calls the claim is about: a well-formed email, a non-empty
\* password, and no login
RefusedSignIn(c) ==
    /\ auth[c].op = "signIn"
    /\ auth[c].pc = "idle"
    /\ isValidEmail(auth[c].data["email"])
    /\ length(auth[c].data["password"]) > 0
    /\ ~auth[c].res.success

\* C18: for a well-formed email and a non-empty password, a signIn that does
\* not log in answers the same whether no user has the email or a user has
\* it with another password: success = false, no user, no token, and a
\* message that only tells whether a statement of the call was rejected,
\* which does not depend on the stored users.
C18_SignInRefusalsAlike ==
    \A c \in Clients :
        RefusedSignIn(c) =>
            auth[c].res =
                IF auth[c].out = "ok"
                  THEN Refused("Invalid email or password")
                  ELSE Refused("An error occurred during login. Please try again.")

\* a signIn for the email of a stored user, in capitals, was refused on an
\* open handle
C18_RefusedForStoredUser ==
    \E c \in Clients :
        /\ RefusedSignIn(c)
        /\ auth[c].data["email"] = 11
        /\ UsersWithEmail(toLowerCase(auth[c].data["email"]), NULL) # {}
        /\ auth[c].out = "constraint"

\* the passwords a call of the auth service was given
Plaintexts ==
    {Param(auth[c].data, f) :
        c \in Clients, f \in {"password", "currentPassword"}} \ {NULL}

\* C19: the credential of an account is the digest of its password, never
\* the password: the INSERT of signUp and the UPDATE of changePassword bind
\* the digest of the password, signIn and changePassword compare the digest
\* of the password they are given, and no stored row holds a password that
\* a call was given.
C19_OnlyDigestsStored ==
    /\ \A c \in Clients :
          /\ (auth[c].op \in {"signUp", "changePassword"}
                 /\ "password_hash" \in DOMAIN auth[c].stmt) =>
                /\ auth[c].stmt["password_hash"] =
                       hashPassword(auth[c].data["password"])
                /\ auth[c].stmt["password_hash"] \notin Plaintexts
          /\ (auth[c].op = "signIn" /\ auth[c].hash # NULL) =>
                auth[c].hash = hashPassword(auth[c].data["password"])
          /\ (auth[c].op = "changePassword" /\ auth[c].hash # NULL) =>
                auth[c].hash = hashPassword(auth[c].data["currentPassword"])
    /\ \A k \in DOMAIN tbl["users"] :
          Field(tbl["users"][k], "password_hash") \notin Plaintexts

\* signUp has issued its INSERT for a password of six characters
C19_SignUpIssuedInsert ==
    \E c \in Clients :
        /\ auth[c].op = "signUp"
        /\ auth[c].pc = "inserted"
        /\ auth[c].data["password"] = 6
        /\ auth[c].stmt["password_hash"] = hashPassword(6)

\* no two users rows have emails that are equal after lower-casing
NoTwoEmails ==
    \A j, k \in DOMAIN tbl["users"] :
        j # k => toLowerCase(tbl["users"][j]["email"]) #
                 toLowerCase(tbl["users"][k]["email"])

----------------------------------------------------------------------------
(* Properties of error propagation and of the stored rows *)

\* C21: when the engine rejects a write a service issued, the call fails with
\* that error: a record-service call suspended on a rejected write ends by
\* throwing the error of the write, and an auth-service call suspended on a
\* rejected INSERT or UPDATE ends without returning a response.
C21_WriteFailuresPropagate ==
    [][/\ (call.pc # "idle" /\ call.out # "ok" /\ call'.pc = "idle") =>
             last'.out = "threw" /\ last'.err = ErrOf(call.out)
       /\ \A c \in Clients :
             (auth[c].pc \in {"inserted", "updated"} /\ auth[c].out # "ok"
                /\ auth'[c].pc = "idle") =>
                auth'[c].res = NoResponse]_vars


C24_LogRowsImmutable ==
    [][\A k \in DOMAIN tbl["medication_logs"] :
          IF k \in DOMAIN tbl'["medication_logs"]
            THEN tbl'["medication_logs"][k] = tbl["medication_logs"][k]
            ELSE /\ call.op = "deleteMedication"
                 /\ tbl["medication_logs"][k]["medication_id"] = call.id]_vars

\* deleteMedication returned for a medication that had a log row, and the
\* row is gone
C24_LogRemovedWithMedication ==
    /\ last.op = "deleteMedication"
    /\ last.out = "ok"
    /\ last.pre.logs # {}
    /\ last.pre.logs \cap DOMAIN tbl["medication_logs"] = {}


----------------------------------------------------------------------------
(* Properties of the stores *)

\* loadStoredAuth() was the first call after the process started, it returned
\* with both of its reads done, and no call has begun since
LoadedAtStart ==
    /\ prev.boots > 0
    /\ prev.sinceBoot = 1
    /\ prev.last.op = "loadStoredAuth"
    /\ prev.last.res = "returned"
    /\ \A c \in Clients : storeCall[c].pc = "idle"

\* C25: the auth store is a cache of the secure store: when the last call
\* before the process stopped was a signIn(user, token) that returned, the
\* loadStoredAuth() of the next start restores that user and token with
\* isAuthenticated = true; when it was a signOut() that returned, the load
\* leaves user = null, token = null, isAuthenticated = false and isPremium =
\* false.
C25_AuthRestoredAtStart ==
    LoadedAtStart =>
        /\ (prev.boot.op = "signIn" /\ prev.boot.res = "returned") =>
              /\ authStore.user = prev.boot.user
              /\ authStore.token = prev.boot.token
              /\ authStore.isAuthenticated
        /\ (prev.boot.op = "signOut" /\ prev.boot.res = "returned") =>
              /\ authStore.user = {}
              /\ authStore.token = NULL
              /\ ~authStore.isAuthenticated
              /\ ~authStore.isPremium

\* the user of a signIn that returned before the process stopped is back
\* after the load
C25_UserRestored ==
    /\ LoadedAtStart
    /\ prev.boot.op = "signIn"
    /\ prev.boot.res = "returned"
    /\ authStore.user = prev.boot.user
    /\ authStore.user # {}


----------------------------------------------------------------------------
(* Properties of the statements against the schema *)

\* C26: the statements of the services fit the schema: every column an
\* INSERT names exists in its table and every NOT NULL column without a
\* default is supplied, so after a completed initialization a create whose
\* user (and, for a log, whose medication) exists is not rejected by the
\* schema or a constraint.
C26_CreatesFitSchema ==
    (/\ InitCompleted
     /\ call.pc = "idle"
     /\ last.op \in CreateOps
     /\ UserOf(last) \in DOMAIN tbl["users"]
     /\ last.op = "logMedicationIntake" =>
            last.data["medicationId"] \in DOMAIN tbl["medications"])
      => last.err # "constraint"


----------------------------------------------------------------------------
(* Properties of clearDatabase *)

\* C29: clearDatabase() called on an initialized database with foreign-key
\* enforcement on, whatever rows it holds (users with child rows,
\* medications with logs), completes without error and leaves every table
\* empty.
C29_ClearEmptiesEveryTable ==
    (/\ InitCompleted
     /\ call.pc = "idle"
     /\ last.op = "clearDatabase"
     /\ last.fk
     /\ last.err \notin Faults)
      => /\ last.out = "ok"
         /\ \A t \in Tables : DOMAIN tbl[t] = {}


\* a step of the signIn or signOut of client c
SignStep(c) ==
    /\ storeCall'[c] # storeCall[c]
    /\ prev'.boots = prev.boots
    /\ (IF storeCall[c].pc = "idle" THEN storeCall'[c].op ELSE storeCall[c].op)
          \in {"signIn", "signOut"}

\* the step ends the call of client c with `res`
Ends(c, res) ==
    /\ storeCall[c].pc # "idle"
    /\ storeCall'[c].pc = "idle"
    /\ prev'.last.res = res

\* the call of client c is a signIn past its writes, in checkPremiumStatus()
PastWrites(sc) == sc.op = "signIn" /\ sc.pc \in {"premium", "expired"}

\* C28: in the auth store isAuthenticated is true exactly when user is not
\* null, whatever setUser, signIn, signOut and loadStoredAuth calls were
\* made; a signIn or signOut whose secure-storage operation is rejected
\* rethrows, and a signIn or signOut that throws has left user, token and
\* isAuthenticated as they were: it changes the state only once it can no
\* longer throw.
C28_AuthenticatedIffUser ==
    /\ [](authStore.isAuthenticated <=> authStore.user # {})
    /\ [][\A c \in Clients : SignStep(c) =>
             /\ (storeCall[c].pc # "idle" /\ storeCall[c].out # "ok"
                   /\ ~PastWrites(storeCall[c])) =>
                      Ends(c, "threw")
             /\ Ends(c, "threw") => authStore' = authStore
             /\ authStore' # authStore =>
                   PastWrites(storeCall'[c]) \/ Ends(c, "returned")
             /\ (PastWrites(storeCall[c]) /\ storeCall'[c].pc = "idle") =>
                   Ends(c, "returned")]_vars

\* a signIn threw at its second write while a user was signed in
C28_SignInThrewSignedIn ==
    /\ prev.last.op = "signIn"
    /\ prev.last.res = "threw"
    /\ authStore.isAuthenticated
    /\ authStore.user # prev.last.user
    /\ secureStore["auth_token"] = {prev.last.token}

----------------------------------------------------------------------------
(* Properties of the settings store *)

Setters == {"setTheme", "setLanguage", "setUnits", "setNotificationSettings"}

\* since the store was constructed each client has called at most one
\* setter and nothing else, some client has, no two clients have called the
\* same setter, and every call has returned
SettersCompleted ==
    /\ prev.boots = 0
    /\ \E c \in Clients : settingsCall[c].n = 1
    /\ \A c, d \in Clients :
          (c # d /\ settingsCall[c].n = 1 /\ settingsCall[d].n = 1) =>
             settingsCall[c].op # settingsCall[d].op
    /\ \A c \in Clients :
          /\ settingsCall[c].pc = "idle"
          /\ settingsCall[c].n <= 1
          /\ settingsCall[c].n = 1 =>
                /\ settingsCall[c].op \in Setters
                /\ settingsCall[c].res = "returned"

\* C27: after any interleaving of setTheme, setLanguage, setUnits and
\* setNotificationSettings calls that have all completed successfully, the
\* value persisted under 'app_settings' equals the in-memory settings.
C27_PersistedEqualsMemory ==
    SettersCompleted => asyncStorage = {stringify(settingsStore)}

============================================================================
